---------------------------- MODULE Spec2Model ----------------------------
(***************************************************************************)
(* Model of the job-search toolkit:                                        *)
(*   - the sticky hot-jobs list of daily_job_search.py (the JSON file      *)
(*     daily_hot_jobs.json, the reconciliation run fetch_hot_jobs and the  *)
(*     --remove / --refresh steps of run_hot_jobs_only);                   *)
(*   - the filter / dedup pipeline of remote_search/remote_job_search.py.  *)
(*                                                                         *)
(* Python strings that the code lower-cases, strips, searches or splits    *)
(* are modelled as sequences of one-character strings, so that these       *)
(* operations are computed and not assumed.  Strings that are only         *)
(* compared for equality (urls, category names, sources) are TLA+ strings. *)
(***************************************************************************)
EXTENDS Naturals, Integers, Sequences, FiniteSets, TLC

VARIABLES
    file,                  \* daily_hot_jobs.json
    pc,                    \* position inside the running command
    remove_company,        \* run_hot_jobs_only: remove_company
    remove_role,           \* run_hot_jobs_only: remove_role
    removed,               \* run_hot_jobs_only: removed
    refresh_cat,           \* run_hot_jobs_only: refresh_cat
    cleared,               \* what the --refresh block printed
    tracker,               \* keys of the tracker dict given to fetch_hot_jobs
    queries,               \* fetch_hot_jobs: queries
    current,               \* fetch_hot_jobs: current, as loaded at its start
    hot_jobs_by_category,  \* fetch_hot_jobs: return value
    fetch_results,         \* fetch_hot_jobs: what each call of fetch_linkedin_jobs returned
    rt_pc,                 \* round trip: position (save, then the two loads)
    arg_current,           \* round trip: argument current_jobs of the save
    arg_blocklist,         \* round trip: argument blocklist of the save
    loaded_current,        \* round trip: what load_hot_jobs_current returned
    loaded_blocklist,      \* round trip: what load_hot_jobs_blocklist returned
    remote_pc,             \* remote search main: position
    all_jobs,              \* remote search main: all_jobs
    filtered,              \* remote search main: filtered
    deduped,               \* remote search main: deduped
    refiltered,            \* filter_jobs applied to deduped
    sorted_jobs,           \* remote search main: sorted_jobs
    tracker_pc,            \* read_application_tracker: position
    sheet_rows,            \* read_application_tracker: the sheet's rows after the header
    tracker_entries,       \* read_application_tracker: the dict it returns
    history_file,          \* remote search: previous_jobs.json
    marked_jobs,           \* remote search main: sorted_jobs after mark_new_jobs
    net,                   \* remote search: what the job boards answer to each request
    tailor_pc,             \* resume tailor: position
    companies,             \* run_tailor: the companies read from the tracker
    company_idx,           \* run_tailor: the company the loop is at
    role_idx,              \* run_tailor: the role of that company being tried
    attempt,               \* call_gemini: attempt
    posts,                 \* call_gemini: requests.post calls made by the current call
    outcomes               \* run_tailor: what became of each company so far

hotVars == <<file, pc, remove_company, remove_role, removed, refresh_cat, cleared,
             tracker, queries, current, hot_jobs_by_category, fetch_results>>
rtVars == <<rt_pc, arg_current, arg_blocklist, loaded_current, loaded_blocklist>>
remoteVars == <<remote_pc, all_jobs, filtered, deduped, refiltered, sorted_jobs>>
otherVars == <<tracker_pc, sheet_rows, tracker_entries, history_file, marked_jobs,
               net, tailor_pc, companies, company_idx, role_idx, attempt, posts, outcomes>>
vars == <<file, pc, remove_company, remove_role, removed, refresh_cat, cleared,
          tracker, queries, current, hot_jobs_by_category, fetch_results, rt_pc,
          arg_current,
          arg_blocklist, loaded_current, loaded_blocklist, remote_pc, all_jobs,
          filtered, deduped, refiltered, sorted_jobs, tracker_pc, sheet_rows,
          tracker_entries, history_file, marked_jobs, net, tailor_pc, companies,
          company_idx, role_idx, attempt, posts, outcomes>>

---------------------------------------------------------------------------
(* Python str operations                                                   *)

UpperChars == <<"A","B","C","D","E","F","G","H","I","J","K","L","M",
                "N","O","P","Q","R","S","T","U","V","W","X","Y","Z">>
LowerChars == <<"a","b","c","d","e","f","g","h","i","j","k","l","m",
                "n","o","p","q","r","s","t","u","v","w","x","y","z">>

\* one character of str.lower()
ToLower == [c \in {UpperChars[i] : i \in 1..Len(UpperChars)} |->
               LowerChars[CHOOSE i \in 1..Len(UpperChars) : UpperChars[i] = c]]

lower_char(c) == IF c \in DOMAIN ToLower THEN ToLower[c] ELSE c

\* str.lower()
lower(s) == [i \in 1..Len(s) |-> lower_char(s[i])]

Whitespace == {" ", "\t", "\n"}

\* str.strip()
strip(s) ==
    LET ink == {i \in 1..Len(s) : s[i] \notin Whitespace}
    IN  IF ink = {} THEN <<>>
        ELSE LET first == CHOOSE i \in ink : \A k \in ink : i <= k
                 last  == CHOOSE i \in ink : \A k \in ink : k <= i
             IN  SubSeq(s, first, last)

\* Python `t in s` for two strings
in_str(t, s) ==
    \E i \in 0..(Len(s) - Len(t)) : SubSeq(s, i + 1, i + Len(t)) = t

\* index (from 1) of the first occurrence of t in s, 0 when there is none
find(s, t) ==
    IF in_str(t, s)
    THEN 1 + CHOOSE i \in 0..(Len(s) - Len(t)) :
                 /\ SubSeq(s, i + 1, i + Len(t)) = t
                 /\ \A k \in 0..(Len(s) - Len(t)) :
                        SubSeq(s, k + 1, k + Len(t)) = t => i <= k
    ELSE 0

PairSep == <<"|", "|">>

\* entry.split('||', 1) of an entry that contains '||'
split_pair(entry) ==
    LET at == find(entry, PairSep)
    IN  <<SubSeq(entry, 1, at - 1), SubSeq(entry, at + Len(PairSep), Len(entry))>>

\* f"{remove_company}||{remove_role}"
pair_key(company, role) == company \o PairSep \o role

Range(s) == {s[i] : i \in 1..Len(s)}

Min(a, b) == IF a <= b THEN a ELSE b

---------------------------------------------------------------------------
(* Inputs of the hot-jobs commands                                         *)

\* a record as fetch_linkedin_jobs builds it
Job(company, title, url, location) ==
    [company |-> company, title |-> title, url |-> url, location |-> location]

J1 == Job(<<"A", "b">>, <<"D", "e", "v">>, "u1", <<"P", "a", "r", "i", "s">>)
J2 == Job(<<"C", "d", " ", "I", "n", "c">>, <<"J", "a", "v", "a", " ", "D", "e", "v">>, "u2", <<"L", "y", "o", "n", ",", " ", "F", "r", "a", "n", "c", "e">>)
J3 == Job(<<"E", "f", "|">>, <<"D", "e", "v">>, "u3", <<"B", "e", "r", "l", "i", "n", ",", " ", "G", "e", "r", "m", "a", "n", "y">>)
J4 == Job(<<"G", "h">>, <<"D", "e", "v">>, "u1", <<"R", "e", "m", "o", "t", "e">>)
J5 == Job(<<"I", "j">>, <<"L", "e", "a", "d", " ", "D", "e", "v">>, "u5", <<"M", "a", "d", "r", "i", "d", ",", " ", "S", "p", "a", "i", "n">>)
J6 == Job(<<" ", "I", "J">>, <<"l", "e", "a", "d", " ", "d", "e", "v", " ">>, "u6", <<"P", "a", "r", "i", "s">>)
J7 == Job(<<"K", "l">>, <<"D", "e", "v">>, "u7", <<"R", "e", "m", "o", "t", "e">>)
J8 == Job(<<"M", "n">>, <<"D", "e", "v">>, "u8", <<"N", "i", "c", "e", ",", " ", "F", "r", "a", "n", "c", "e">>)
J9 == Job(<<"O", "p">>, <<"D", "e", "v">>, "u9", <<"P", "a", "r", "i", "s">>)
J10 == Job(<<"Q", "r">>, <<"D", "e", "v">>, "u10", <<"R", "e", "m", "o", "t", "e">>)
J11 == Job(<<"S", "t">>, <<"D", "e", "v">>, "u5", <<"R", "e", "m", "o", "t", "e">>)
J12 == Job(<<"E", "f">>, <<"J", "a", "v", "a", " ", "|", "D", "e", "v">>, "u12", <<"P", "a", "r", "i", "s">>)

SeniorJava == "Senior Java"
BackendJava == "Backend Java"

\* HOT_JOB_QUERIES of two config.py: a category maps to its query_list
BothCategories == [c \in {SeniorJava, BackendJava} |->
                      IF c = SeniorJava THEN <<"senior+java+developer", "senior+software+engineer+java">>
                      ELSE <<"backend+java+developer">>]
OneCategory == [c \in {SeniorJava} |-> BothCategories[c]]
Configs == {BothCategories, OneCategory}

\* what LinkedIn lists for a query, in its ranking order
Listings(q) ==
    IF q = "senior+java+developer" THEN <<J1, J2, J3>>
    ELSE IF q = "senior+software+engineer+java" THEN <<J4, J7, J8, J9, J10>>
    ELSE <<J5, J6, J11, J12>>

\* the most listings one fetch_linkedin_jobs call returns
MaxFetch == 4

\* What one fetch_linkedin_jobs call can return.  <<>> is a failed request (a
\* status other than 200, or an exception) or an empty page.  The first
\* query's page shows any number of its first listings; the other queries
\* return their first MaxFetch listings.
FetchResults(q) ==
    IF q = "senior+java+developer"
    THEN {SubSeq(Listings(q), 1, n) : n \in 0..Min(MaxFetch, Len(Listings(q)))}
    ELSE {<<>>, SubSeq(Listings(q), 1, Min(MaxFetch, Len(Listings(q))))}

\* the company names of the tracker spreadsheet (already stripped by
\* read_application_tracker)
TrackerCompanies == {<<"A", "B", " ", "C", "o">>, <<"C", "d">>}

\* the two non-flag arguments after --remove
RemoveArgs == {<<<<" ", "C", "D", " ">>, <<"J", "a", "v", "a">>>>, <<<<"E", "f", "|">>, <<"D", "e", "v">>>>}

\* the argument after --refresh; NoArg: --refresh is the last argument or a flag follows
NoArg == "<none>"
RefreshArgs == {NoArg, "", SeniorJava, "Product Owner"}

\* a Python None in a string variable
None == <<"<None>">>

HotJobs == {J1, J2, J3, J4, J5, J6, J7, J8, J9, J10, J11, J12}

---------------------------------------------------------------------------
(* The sticky file                                                         *)

NoJobs == [c \in {} |-> <<>>]

\* no daily_hot_jobs.json (or one that is not JSON): _load_hot_jobs_file gives {}
NoFile == [exists |-> FALSE, last_updated |-> "", current_jobs |-> NoJobs,
           blocklist |-> <<>>]

\* datetime.now().strftime('%Y-%m-%d'); written, never read back by the code
Today == "today"

load_hot_jobs_current(f) == IF f.exists THEN f.current_jobs ELSE NoJobs

load_hot_jobs_blocklist(f) == IF f.exists THEN Range(f.blocklist) ELSE {}

\* all the lists list(blocklist) can be for a set: its iteration order is not fixed
Orderings(S) ==
    {q \in [1..Cardinality(S) -> S] : \A i, k \in 1..Cardinality(S) : q[i] = q[k] => i = k}

save_hot_jobs_current_mut_keep_existing(f, current_jobs, blocklist, given) ==
    {[exists |-> TRUE, last_updated |-> Today, current_jobs |-> current_jobs,
      blocklist |-> IF f.exists THEN f.blocklist ELSE <<>>]}

save_hot_jobs_current_mut_drop_blocklist(f, current_jobs, blocklist, given) ==
    {[exists |-> TRUE, last_updated |-> Today, current_jobs |-> current_jobs,
      blocklist |-> bl] :
        bl \in IF given THEN Orderings(blocklist) ELSE {<<>>}}

\* The files save_hot_jobs_current(current_jobs, blocklist) can write over f;
\* `given` is FALSE for blocklist=None.
save_hot_jobs_current(f, current_jobs, blocklist, given) ==
    {[exists |-> TRUE, last_updated |-> Today, current_jobs |-> current_jobs,
      blocklist |-> bl] :
        bl \in IF given THEN Orderings(blocklist)
               ELSE {IF f.exists THEN f.blocklist ELSE <<>>}}

---------------------------------------------------------------------------
(* Matching                                                                *)

_is_in_tracker_mut_one_way(job_company, tracker_names) ==
    \E t \in tracker_names : in_str(t, job_company)

_is_in_tracker(job_company, tracker_names) ==
    \E t \in tracker_names : in_str(t, job_company) \/ in_str(job_company, t)

_is_blocklisted(job_company, job_title, blocklist) ==
    \E entry \in blocklist :
        IF in_str(PairSep, entry)
        THEN LET p == split_pair(entry)
             IN  in_str(p[1], job_company) /\ in_str(p[2], job_title)
        ELSE in_str(entry, job_company) \/ in_str(job_company, entry)

\* [name.lower().strip() for name in tracker.keys()]
tracker_names_of(tr) == {strip(lower(name)) : name \in tr}


---------------------------------------------------------------------------
(* get_hot_job_location_tier                                               *)

HotEmea == {<<"e", "u", "r", "o", "p", "e">>, <<"e", "m", "e", "a">>, <<"g", "e", "r", "m", "a", "n", "y">>, <<"n", "e", "t", "h", "e", "r", "l", "a", "n", "d", "s">>, <<"b", "e", "l", "g", "i", "u", "m">>, <<"s", "p", "a", "i", "n">>,
            <<"i", "t", "a", "l", "y">>, <<"s", "w", "i", "t", "z", "e", "r", "l", "a", "n", "d">>, <<"u", "k">>, <<"u", "n", "i", "t", "e", "d", " ", "k", "i", "n", "g", "d", "o", "m">>, <<"i", "r", "e", "l", "a", "n", "d">>,
            <<"s", "w", "e", "d", "e", "n">>, <<"d", "e", "n", "m", "a", "r", "k">>, <<"p", "o", "r", "t", "u", "g", "a", "l">>, <<"a", "u", "s", "t", "r", "i", "a">>, <<"p", "o", "l", "a", "n", "d">>}

get_hot_job_location_tier(location) ==
    LET loc == lower(location)
    IN  IF in_str(<<"p", "a", "r", "i", "s">>, loc) THEN 0
        ELSE IF in_str(<<"f", "r", "a", "n", "c", "e">>, loc) \/ in_str(<<"î", "l", "e", "-", "d", "e", "-", "f", "r", "a", "n", "c", "e">>, loc)
                \/ in_str(<<"i", "l", "e", "-", "d", "e", "-", "f", "r", "a", "n", "c", "e">>, loc) THEN 1
        ELSE IF \E e \in HotEmea : in_str(e, loc) THEN 2
        ELSE 3

\* What the code computes from a listing's text, evaluated once per listing:
\*   company, title:             job[...].lower().strip()
\*   company_lower, title_lower: job[...].lower()
\*   tier:                       get_hot_job_location_tier(job['location'])
JobText == [j \in HotJobs |->
               [company |-> strip(lower(j.company)),
                title |-> strip(lower(j.title)),
                company_lower |-> lower(j.company),
                title_lower |-> lower(j.title),
                tier |-> get_hot_job_location_tier(j.location)]]

\* (job['company'].lower().strip(), job['title'].lower().strip())
job_key(job) == <<JobText[job].company, JobText[job].title>>

sort_by_tier_mut_unsorted(candidates) == candidates

\* candidates.sort(key=tier): a stable sort on a key in 0..3
sort_by_tier(candidates) ==
    SelectSeq(candidates, LAMBDA j : JobText[j].tier = 0)
    \o SelectSeq(candidates, LAMBDA j : JobText[j].tier = 1)
    \o SelectSeq(candidates, LAMBDA j : JobText[j].tier = 2)
    \o SelectSeq(candidates, LAMBDA j : JobText[j].tier = 3)

---------------------------------------------------------------------------
(* fetch_hot_jobs                                                          *)

\* the sticky list's capacity (slots_needed = 5 - len(kept))
Capacity == 5

\* the jobs of `existing` whose company is not in the tracker
kept_of(existing, tracker_names) ==
    SelectSeq(existing,
              LAMBDA job : ~_is_in_tracker(JobText[job].company, tracker_names))

slots_needed_mut_off_by_one(kept) == Capacity + 1 - Len(kept)

slots_needed_mut_at_least_one(kept) ==
    IF Len(kept) >= Capacity THEN 1 ELSE Capacity - Len(kept)

slots_needed_of(kept) == Capacity - Len(kept)

RECURSIVE scan_jobs_mut_no_url_check(_, _, _, _)
scan_jobs_mut_no_url_check(jobs, acc, tracker_names, blocklist) ==
    IF jobs = <<>> THEN acc
    ELSE LET job == Head(jobs)
             key == job_key(job)
             skip == \/ key \in acc.keys
                     \/ _is_in_tracker(JobText[job].company, tracker_names)
                     \/ _is_blocklisted(JobText[job].company, JobText[job].title,
                                        blocklist)
             next == IF skip THEN acc
                     ELSE [urls |-> acc.urls \cup {job.url},
                           keys |-> acc.keys \cup {key},
                           candidates |-> Append(acc.candidates, job)]
         IN  scan_jobs_mut_no_url_check(Tail(jobs), next, tracker_names, blocklist)

\* the inner loop over one query's jobs; acc = [urls, keys, candidates]
RECURSIVE scan_jobs(_, _, _, _)
scan_jobs(jobs, acc, tracker_names, blocklist) ==
    IF jobs = <<>> THEN acc
    ELSE LET job == Head(jobs)
             key == job_key(job)
             skip == \/ job.url \in acc.urls
                     \/ key \in acc.keys
                     \/ _is_in_tracker(JobText[job].company, tracker_names)
                     \/ _is_blocklisted(JobText[job].company, JobText[job].title,
                                        blocklist)
             next == IF skip THEN acc
                     ELSE [urls |-> acc.urls \cup {job.url},
                           keys |-> acc.keys \cup {key},
                           candidates |-> Append(acc.candidates, job)]
         IN  scan_jobs(Tail(jobs), next, tracker_names, blocklist)

\* the loop over the category's query_list; results[i] is what
\* fetch_linkedin_jobs returned for its i-th query
RECURSIVE scan_queries(_, _, _, _)
scan_queries(results, acc, tracker_names, blocklist) ==
    IF results = <<>> THEN acc
    ELSE scan_queries(Tail(results),
                      scan_jobs(Head(results), acc, tracker_names, blocklist),
                      tracker_names, blocklist)

reconcile_category_mut_replace(existing, results, tracker_names, blocklist) ==
    LET kept == kept_of(existing, tracker_names)
        slots_needed == slots_needed_of(kept)
    IN  IF slots_needed > 0
        THEN LET acc0 == [urls |-> {j.url : j \in Range(kept)},
                          keys |-> {job_key(j) : j \in Range(kept)},
                          candidates |-> <<>>]
                 candidates == sort_by_tier(
                     scan_queries(results, acc0, tracker_names, blocklist).candidates)
             IN  IF candidates = <<>> THEN kept
                 ELSE SubSeq(candidates, 1, Min(slots_needed, Len(candidates)))
        ELSE kept

reconcile_category_mut_prepend(existing, results, tracker_names, blocklist) ==
    LET kept == kept_of(existing, tracker_names)
        slots_needed == slots_needed_of(kept)
    IN  IF slots_needed > 0
        THEN LET acc0 == [urls |-> {j.url : j \in Range(kept)},
                          keys |-> {job_key(j) : j \in Range(kept)},
                          candidates |-> <<>>]
                 candidates == sort_by_tier(
                     scan_queries(results, acc0, tracker_names, blocklist).candidates)
             IN  SubSeq(candidates, 1, Min(slots_needed, Len(candidates))) \o kept
        ELSE kept

reconcile_category_mut_drop_on_failure(existing, results, tracker_names, blocklist) ==
    LET kept == kept_of(existing, tracker_names)
        slots_needed == slots_needed_of(kept)
    IN  IF slots_needed > 0
        THEN LET acc0 == [urls |-> {j.url : j \in Range(kept)},
                          keys |-> {job_key(j) : j \in Range(kept)},
                          candidates |-> <<>>]
                 candidates == sort_by_tier(
                     scan_queries(results, acc0, tracker_names, blocklist).candidates)
             IN  IF candidates = <<>> THEN <<>>
                 ELSE kept \o SubSeq(candidates, 1, Min(slots_needed, Len(candidates)))
        ELSE kept

\* one iteration of the loop over queries.items(): the category's new list
reconcile_category(existing, results, tracker_names, blocklist) ==
    LET kept == kept_of(existing, tracker_names)
        slots_needed == slots_needed_of(kept)
    IN  IF slots_needed > 0
        THEN LET acc0 == [urls |-> {j.url : j \in Range(kept)},
                          keys |-> {job_key(j) : j \in Range(kept)},
                          candidates |-> <<>>]
                 candidates == sort_by_tier(
                     scan_queries(results, acc0, tracker_names, blocklist).candidates)
             IN  kept \o SubSeq(candidates, 1, Min(slots_needed, Len(candidates)))
        ELSE kept

fetch_hot_jobs_mut_keep_categories(cur, blocklist, tr, qs, fetched) ==
    LET names == tracker_names_of(tr)
        new(cat) == IF cat \in DOMAIN qs
                    THEN reconcile_category(
                             IF cat \in DOMAIN cur THEN cur[cat] ELSE <<>>,
                             fetched[cat], names, blocklist)
                    ELSE cur[cat]
    IN  [cat \in DOMAIN qs \cup DOMAIN cur |-> new(cat)]

\* hot_jobs_by_category as fetch_hot_jobs builds it; fetched[cat] holds the
\* results of the category's queries, in query_list order
fetch_hot_jobs(cur, blocklist, tr, qs, fetched) ==
    LET names == tracker_names_of(tr)
        new(cat) == reconcile_category(
                        IF cat \in DOMAIN cur THEN cur[cat] ELSE <<>>,
                        fetched[cat], names, blocklist)
    IN  [cat \in {c \in DOMAIN qs : new(c) # <<>>} |-> new(cat)]

---------------------------------------------------------------------------
(* The hot-jobs commands: create_job_report calls fetch_hot_jobs;          *)
(* run_hot_jobs_only runs the --remove block, the --refresh block and then *)
(* fetch_hot_jobs, each of which rewrites the file.                        *)

\* no command is running
HotIdle ==
    /\ pc = "idle"
    /\ remove_company = None
    /\ remove_role = None
    /\ removed = FALSE
    /\ refresh_cat = NoArg
    /\ cleared = "nothing"
    /\ tracker = {}
    /\ queries = BothCategories
    /\ current = NoJobs
    /\ hot_jobs_by_category = NoJobs
    /\ fetch_results = NoJobs

\* the locals of the --remove block, unset (they are not read after it)
NoRemove == remove_company' = None /\ remove_role' = None /\ removed' = FALSE

\* the locals of the --refresh block, unset (they are not read after it)
NoRefresh == refresh_cat' = NoArg /\ cleared' = "nothing"

\* the locals and the result of fetch_hot_jobs, unset
NoFetch ==
    /\ tracker' = {}
    /\ queries' = BothCategories
    /\ current' = NoJobs
    /\ hot_jobs_by_category' = NoJobs
    /\ fetch_results' = NoJobs

\* the jobs of a list the --remove block keeps
remove_filter_mut_equal(jobs, company, role) ==
    SelectSeq(jobs, LAMBDA j : ~(company = JobText[j].company_lower
                                  /\ role = JobText[j].title_lower))

remove_filter(jobs, company, role) ==
    SelectSeq(jobs, LAMBDA j : ~(in_str(company, JobText[j].company_lower)
                                  /\ in_str(role, JobText[j].title_lower)))

\* the blocklist the --remove block saves
remove_blocklist(blocklist, company, role) ==
    blocklist \cup {pair_key(company, role)}

\* run_hot_jobs_only, '--remove' with two or more non-flag arguments after it
RemoveJob(a) ==
    /\ pc = "idle"
    /\ LET company == strip(lower(a[1]))
           role == strip(lower(a[2]))
           cur == load_hot_jobs_current(file)
           blocklist == load_hot_jobs_blocklist(file)
           new == [cat \in DOMAIN cur |-> remove_filter(cur[cat], company, role)]
       IN  /\ file' \in save_hot_jobs_current(file, new,
                            remove_blocklist(blocklist, company, role), TRUE)
           /\ remove_company' = company
           /\ remove_role' = role
           /\ removed' = \E cat \in DOMAIN cur : Len(new[cat]) < Len(cur[cat])
    /\ pc' = "removed"
    /\ UNCHANGED <<refresh_cat, cleared, tracker, queries, current,
                   hot_jobs_by_category, fetch_results>>
    /\ UNCHANGED <<rtVars, remoteVars, otherVars>>

RemoveUsage_mut_blocklists_company ==
    /\ pc = "idle"
    /\ \E a \in RemoveArgs :
           file' \in save_hot_jobs_current(file, load_hot_jobs_current(file),
                         remove_blocklist(load_hot_jobs_blocklist(file),
                                          strip(lower(a[1])), <<>>), TRUE)
    /\ pc' = "usage"
    /\ UNCHANGED <<remove_company, remove_role, removed, refresh_cat,
                   cleared, tracker, queries, current, hot_jobs_by_category,
                   fetch_results>>
    /\ UNCHANGED <<rtVars, remoteVars, otherVars>>

\* run_hot_jobs_only, '--remove' with exactly one non-flag argument after it:
\* the usage text is printed and the command returns
RemoveUsage ==
    /\ pc = "idle"
    /\ pc' = "usage"
    /\ UNCHANGED <<file, remove_company, remove_role, removed, refresh_cat,
                   cleared, tracker, queries, current, hot_jobs_by_category,
                   fetch_results>>
    /\ UNCHANGED <<rtVars, remoteVars, otherVars>>

\* current after the --refresh block has cleared it
refresh_clear_mut_clear_all(cur, cat) == NoJobs

refresh_clear(cur, cat) ==
    IF cat # NoArg /\ cat # ""
    THEN IF cat \in DOMAIN cur
         THEN [c \in DOMAIN cur \ {cat} |-> cur[c]]
         ELSE cur
    ELSE NoJobs

\* run_hot_jobs_only, the '--refresh' block
Refresh(cat) ==
    /\ pc \in {"idle", "removed"}
    /\ file' \in save_hot_jobs_current(file,
                     refresh_clear(load_hot_jobs_current(file), cat), {}, FALSE)
    /\ refresh_cat' = cat
    /\ cleared' = IF cat # NoArg /\ cat # ""
                  THEN IF cat \in DOMAIN load_hot_jobs_current(file)
                       THEN "category" ELSE "not found"
                  ELSE "all"
    /\ pc' = "refreshed"
    /\ NoRemove
    /\ UNCHANGED <<tracker, queries, current, hot_jobs_by_category, fetch_results>>
    /\ UNCHANGED <<rtVars, remoteVars, otherVars>>

\* the results the calls of fetch_linkedin_jobs for a query_list can return
RECURSIVE QueryResults(_)
QueryResults(query_list) ==
    IF query_list = <<>> THEN {<<>>}
    ELSE {<<r>> \o rest : r \in FetchResults(Head(query_list)),
                          rest \in QueryResults(Tail(query_list))}

\* a category is fetched for only when its kept list leaves a slot: without
\* one, fetch_linkedin_jobs is not called and there is no result
CategoryResults(cat, qs, cur, names) ==
    IF slots_needed_of(kept_of(IF cat \in DOMAIN cur THEN cur[cat] ELSE <<>>, names)) > 0
    THEN QueryResults(qs[cat])
    ELSE {<<>>}

RECURSIVE Fetched(_, _, _, _)
Fetched(cats, qs, cur, names) ==
    IF cats = {} THEN {[c \in {} |-> <<>>]}
    ELSE LET cat == CHOOSE c \in cats : TRUE
         IN  {[c \in cats |-> IF c = cat THEN r ELSE rest[c]] :
                 r \in CategoryResults(cat, qs, cur, names),
                 rest \in Fetched(cats \ {cat}, qs, cur, names)}

\* fetch_hot_jobs(tracker), called by create_job_report and as the last
\* step of run_hot_jobs_only
Reconcile(tr, qs) ==
    /\ pc \in {"idle", "removed", "refreshed"}
    /\ LET cur == load_hot_jobs_current(file)
           blocklist == load_hot_jobs_blocklist(file)
       IN  \E fetched \in Fetched(DOMAIN qs, qs, cur, tracker_names_of(tr)) :
               LET result == fetch_hot_jobs(cur, blocklist, tr, qs, fetched)
               IN  /\ file' \in save_hot_jobs_current(file, result, {}, FALSE)
                   /\ hot_jobs_by_category' = result
                   /\ current' = cur
                   /\ fetch_results' = fetched
    /\ tracker' = tr
    /\ queries' = qs
    /\ pc' = "done"
    /\ NoRemove
    /\ NoRefresh
    /\ UNCHANGED <<rtVars, remoteVars, otherVars>>

\* the command returns and its process ends: only the file remains
Exit ==
    /\ pc \in {"done", "usage"}
    /\ pc' = "idle"
    /\ NoRemove
    /\ NoRefresh
    /\ NoFetch
    /\ UNCHANGED <<file, rtVars, remoteVars, otherVars>>

\* the round trip is not being run
RtOff ==
    /\ rt_pc = "off"
    /\ arg_current = NoJobs
    /\ arg_blocklist = {}
    /\ loaded_current = NoJobs
    /\ loaded_blocklist = {}

\* the remote search is not being run
RemoteOff ==
    /\ remote_pc = "off"
    /\ all_jobs = <<>>
    /\ filtered = <<>>
    /\ deduped = <<>>
    /\ refiltered = <<>>
    /\ sorted_jobs = <<>>

\* previous_jobs.json does not exist
NoHistory == [exists |-> FALSE, keys |-> <<>>]

\* a request that fails: connection error, HTTP error status, or a body that
\* does not parse
Failed == [ok |-> FALSE, items |-> <<>>]

\* every request fails
NoNet == [remoteok |-> Failed, arbeitnow |-> <<Failed, Failed, Failed>>,
          wwr |-> <<Failed, Failed>>]

\* the resume tailor is not being run
TailorOff ==
    /\ tailor_pc = "off"
    /\ companies = <<>>
    /\ company_idx = 1
    /\ role_idx = 1
    /\ attempt = 0
    /\ posts = 0
    /\ outcomes = <<>>

\* the tracker is not being read, and the remote search has not been run
OthersOff ==
    /\ TailorOff
    /\ tracker_pc = "off"
    /\ sheet_rows = <<>>
    /\ tracker_entries = NoJobs
    /\ history_file = NoHistory
    /\ marked_jobs = <<>>
    /\ net = NoNet

Init ==
    /\ file = NoFile
    /\ HotIdle
    /\ RtOff
    /\ RemoteOff
    /\ OthersOff

Next ==
    \/ \E a \in RemoveArgs : RemoveJob(a)
    \/ RemoveUsage
    \/ \E cat \in RefreshArgs : Refresh(cat)
    \/ \E tr \in SUBSET TrackerCompanies, qs \in Configs : Reconcile(tr, qs)
    \/ Exit

Spec == Init /\ [][Next]_vars

---------------------------------------------------------------------------
(* The sticky file round trip: save_hot_jobs_current(c, b), then            *)
(* load_hot_jobs_current() and load_hot_jobs_blocklist()                    *)

\* the longest list of a category that is saved
MaxSaved == 2

SavedJobs == {J1, J2}

SavedLists == UNION {[1..n -> SavedJobs] : n \in 0..MaxSaved}

\* the maps current_jobs that are saved
SavedMaps == UNION {[cats -> SavedLists] : cats \in SUBSET {SeniorJava, BackendJava}}

\* blocklist keys: two pair keys and a legacy company-only key
SavedKeys == {pair_key(<<"c", "d">>, <<"j", "a", "v", "a">>), pair_key(<<"e", "f", "|">>, <<"d", "e", "v">>), <<"a", "c", "m", "e">>}

\* the file before the save: absent, or written by earlier commands
PriorFiles ==
    {NoFile,
     [exists |-> TRUE, last_updated |-> "yesterday",
      current_jobs |-> [c \in {BackendJava} |-> <<J5>>],
      blocklist |-> <<pair_key(<<"k", "l">>, <<"d", "e", "v">>)>>]}

RoundTripInit ==
    /\ file \in PriorFiles
    /\ HotIdle
    /\ rt_pc = "start"
    /\ arg_current \in SavedMaps
    /\ arg_blocklist \in SUBSET SavedKeys
    /\ loaded_current = NoJobs
    /\ loaded_blocklist = {}
    /\ RemoteOff
    /\ OthersOff

\* save_hot_jobs_current(arg_current, arg_blocklist)
Save ==
    /\ rt_pc = "start"
    /\ file' \in save_hot_jobs_current(file, arg_current, arg_blocklist, TRUE)
    /\ rt_pc' = "saved"
    /\ UNCHANGED <<arg_current, arg_blocklist, loaded_current, loaded_blocklist>>
    /\ UNCHANGED <<pc, remove_company, remove_role, removed, refresh_cat, cleared,
                   tracker, queries, current, hot_jobs_by_category, fetch_results>>
    /\ UNCHANGED <<remoteVars, otherVars>>

\* load_hot_jobs_current() and load_hot_jobs_blocklist()
Load ==
    /\ rt_pc = "saved"
    /\ loaded_current' = load_hot_jobs_current(file)
    /\ loaded_blocklist' = load_hot_jobs_blocklist(file)
    /\ rt_pc' = "loaded"
    /\ UNCHANGED <<arg_current, arg_blocklist>>
    /\ UNCHANGED hotVars
    /\ UNCHANGED <<remoteVars, otherVars>>

RoundTripNext == Save \/ Load

RoundTripSpec == RoundTripInit /\ [][RoundTripNext]_vars

---------------------------------------------------------------------------
(* The remote search: filter_jobs and dedup_jobs                            *)

ROLE_KEYWORDS ==
    {<<"j", "a", "v", "a">>, <<"b", "a", "c", "k", "e", "n", "d">>, <<"b", "a", "c", "k", "-", "e", "n", "d">>, <<"b", "a", "c", "k", " ", "e", "n", "d">>,
     <<"s", "o", "f", "t", "w", "a", "r", "e", " ", "e", "n", "g", "i", "n", "e", "e", "r">>, <<"s", "e", "n", "i", "o", "r", " ", "s", "o", "f", "t", "w", "a", "r", "e">>, <<"t", "e", "c", "h", " ", "l", "e", "a", "d">>,
     <<"a", "p", "i", " ", "e", "n", "g", "i", "n", "e", "e", "r">>, <<"a", "i", " ", "e", "n", "g", "i", "n", "e", "e", "r">>, <<"g", "e", "n", "a", "i">>, <<"l", "l", "m", " ", "e", "n", "g", "i", "n", "e", "e", "r">>}

PYTHON_SECONDARY_KEYWORDS ==
    {<<"p", "y", "t", "h", "o", "n">>}

JAVA_BACKEND_SIGNALS ==
    {<<"j", "a", "v", "a">>, <<"b", "a", "c", "k", "e", "n", "d">>, <<"b", "a", "c", "k", "-", "e", "n", "d">>, <<"b", "a", "c", "k", " ", "e", "n", "d">>, <<"j", "v", "m">>, <<"s", "p", "r", "i", "n", "g">>,
     <<"m", "i", "c", "r", "o", "s", "e", "r", "v", "i", "c", "e", "s">>}

EU_FOCUSED_SOURCES ==
    {"Arbeitnow"}

RELAXED_LOCATION_SOURCES ==
    {"Jobicy"}

ROLE_EXCLUDE ==
    {<<"d", "a", "t", "a", " ", "s", "c", "i", "e", "n", "t", "i", "s", "t">>, <<"m", "a", "c", "h", "i", "n", "e", " ", "l", "e", "a", "r", "n", "i", "n", "g", " ", "e", "n", "g", "i", "n", "e", "e", "r">>, <<"m", "l", " ", "e", "n", "g", "i", "n", "e", "e", "r">>,
     <<"d", "a", "t", "a", " ", "e", "n", "g", "i", "n", "e", "e", "r">>, <<"a", "n", "a", "l", "y", "t", "i", "c", "s", " ", "e", "n", "g", "i", "n", "e", "e", "r">>, <<"r", "e", "s", "e", "a", "r", "c", "h", " ", "s", "c", "i", "e", "n", "t", "i", "s", "t">>,
     <<"f", "r", "o", "n", "t", "e", "n", "d">>, <<"f", "r", "o", "n", "t", "-", "e", "n", "d">>, <<"f", "r", "o", "n", "t", " ", "e", "n", "d">>, <<"i", "o", "s", " ">>, <<"a", "n", "d", "r", "o", "i", "d", " ">>,
     <<"r", "e", "a", "c", "t", " ", "n", "a", "t", "i", "v", "e">>, <<"f", "l", "u", "t", "t", "e", "r">>, <<"w", "e", "b", " ", "d", "e", "v", "e", "l", "o", "p", "e", "r">>, <<"w", "o", "r", "d", "p", "r", "e", "s", "s">>,
     <<"p", "h", "p", " ", "d", "e", "v", "e", "l", "o", "p", "e", "r">>, <<"r", "u", "b", "y">>, <<"s", "a", "l", "e", "s", "f", "o", "r", "c", "e">>, <<".", "n", "e", "t">>, <<"d", "o", "t", "n", "e", "t">>,
     <<"c", "#", " ">>, <<"n", "o", "d", "e", ".", "j", "s">>, <<"h", "u", "b", "s", "p", "o", "t">>, <<"w", "e", "b", "f", "l", "o", "w">>, <<"f", "i", "g", "m", "a">>, <<"s", "h", "o", "p", "i", "f", "y">>,
     <<"a", "c", "c", "o", "u", "n", "t", " ", "e", "x", "e", "c", "u", "t", "i", "v", "e">>, <<"s", "a", "l", "e", "s", " ">>, <<"m", "a", "r", "k", "e", "t", "i", "n", "g">>, <<"f", "u", "l", "l", " ", "s", "t", "a", "c", "k">>,
     <<"f", "u", "l", "l", "-", "s", "t", "a", "c", "k">>, <<"f", "u", "l", "l", "s", "t", "a", "c", "k">>, <<"n", "e", "t", "w", "o", "r", "k", " ", "e", "n", "g", "i", "n", "e", "e", "r">>, <<"v", "o", "i", "p">>,
     <<"l", "i", "n", "u", "x", " ", "a", "d", "m", "i", "n">>, <<"c", "o", "n", "s", "u", "l", "t", "a", "n", "t">>, <<"w", "e", "r", "k", "s", "t", "u", "d", "e", "n", "t">>, <<"i", "n", "t", "e", "r", "n", " ">>,
     <<"n", "e", "w", " ", "g", "r", "a", "d">>, <<"g", "r", "a", "d", "u", "a", "t", "e", " ", "e", "n", "g", "i", "n", "e", "e", "r">>, <<"e", "n", "t", "r", "y", " ", "l", "e", "v", "e", "l">>, <<"j", "u", "n", "i", "o", "r", " ">>,
     <<"g", "u", "a", "t", "e", "m", "a", "l", "a">>, <<"l", "a", "t", "i", "n", " ", "a", "m", "e", "r", "i", "c", "a">>, <<"l", "a", "t", "a", "m">>, <<"r", "o", "r", " ">>,
     <<"r", "a", "i", "l", "s", " ", "d", "e", "v", "e", "l", "o", "p", "e", "r">>, <<"r", "u", "b", "y", " ", "o", "n", " ", "r", "a", "i", "l", "s">>, <<"w", "e", "b", " ", "d", "e", "v", "e", "l", "o", "p", "m", "e", "n", "t", " ", "m", "a", "n", "a", "g", "e", "r">>,
     <<"m", "a", "n", "a", "g", "e", "r", ",", " ", "w", "e", "b">>, <<"f", "r", "e", "e", "l", "a", "n", "c", "e">>, <<"d", "a", "t", "a", "o", "p", "s">>, <<"d", "a", "t", "a", " ", "o", "p", "s">>,
     <<"n", "e", "t", "w", "o", "r", "k", " ", "a", "u", "t", "o", "m", "a", "t", "i", "o", "n">>, <<"d", "e", "v", "o", "p", "s">>, <<"d", "e", "v", " ", "o", "p", "s">>, <<"c", "l", "o", "u", "d", " ", "e", "n", "g", "i", "n", "e", "e", "r">>,
     <<"s", "r", "e">>, <<"s", "i", "t", "e", " ", "r", "e", "l", "i", "a", "b", "i", "l", "i", "t", "y">>, <<"i", "n", "f", "r", "a", "s", "t", "r", "u", "c", "t", "u", "r", "e", " ", "e", "n", "g", "i", "n", "e", "e", "r">>,
     <<"p", "l", "a", "t", "f", "o", "r", "m", " ", "e", "n", "g", "i", "n", "e", "e", "r">>, <<"s", "y", "s", "t", "e", "m", "s", " ", "e", "n", "g", "i", "n", "e", "e", "r">>, <<"p", "r", "o", "m", "p", "t", " ", "e", "n", "g", "i", "n", "e", "e", "r">>,
     <<"c", "+", "+">>}

LOCATION_INCLUDE ==
    {<<"w", "o", "r", "l", "d", "w", "i", "d", "e">>, <<"a", "n", "y", "w", "h", "e", "r", "e">>, <<"e", "m", "e", "a">>, <<"e", "u", "r", "o", "p", "e">>, <<"e", "u">>, <<"f", "r", "a", "n", "c", "e">>,
     <<"p", "a", "r", "i", "s">>, <<"g", "l", "o", "b", "a", "l">>, <<"u", "k">>, <<"g", "e", "r", "m", "a", "n", "y">>, <<"n", "e", "t", "h", "e", "r", "l", "a", "n", "d", "s">>, <<"b", "e", "l", "g", "i", "u", "m">>,
     <<"s", "p", "a", "i", "n">>, <<"i", "t", "a", "l", "y">>, <<"s", "w", "i", "t", "z", "e", "r", "l", "a", "n", "d">>, <<"a", "u", "s", "t", "r", "i", "a">>, <<"s", "w", "e", "d", "e", "n">>,
     <<"n", "o", "r", "w", "a", "y">>, <<"d", "e", "n", "m", "a", "r", "k">>, <<"p", "o", "r", "t", "u", "g", "a", "l">>, <<"i", "r", "e", "l", "a", "n", "d">>, <<"p", "o", "l", "a", "n", "d">>,
     <<"c", "z", "e", "c", "h">>, <<"u", "n", "i", "t", "e", "d", " ", "k", "i", "n", "g", "d", "o", "m">>, <<"l", "o", "n", "d", "o", "n">>, <<"r", "o", "m", "a", "n", "i", "a">>, <<"h", "u", "n", "g", "a", "r", "y">>,
     <<"g", "r", "e", "e", "c", "e">>, <<"f", "i", "n", "l", "a", "n", "d">>, <<"c", "r", "o", "a", "t", "i", "a">>, <<"l", "u", "x", "e", "m", "b", "o", "u", "r", "g">>, <<"b", "e", "r", "l", "i", "n">>,
     <<"a", "m", "s", "t", "e", "r", "d", "a", "m">>, <<"b", "a", "r", "c", "e", "l", "o", "n", "a">>, <<"m", "u", "n", "i", "c", "h">>, <<"d", "u", "b", "l", "i", "n">>, <<"l", "i", "s", "b", "o", "n">>,
     <<"w", "a", "r", "s", "a", "w">>, <<"p", "r", "a", "g", "u", "e">>, <<"v", "i", "e", "n", "n", "a">>, <<"b", "r", "u", "s", "s", "e", "l", "s">>, <<"g", "m", "t">>, <<"c", "e", "t">>,
     <<"c", "e", "s", "t">>, <<"c", "e", "n", "t", "r", "a", "l", " ", "e", "u", "r", "o", "p", "e", "a", "n">>, <<"u", "t", "c", "+", "1">>, <<"u", "t", "c", "+", "2">>}

LOCATION_EXCLUDE ==
    {<<"u", "s", " ", "o", "n", "l", "y">>, <<"u", "s", " ", "t", "i", "m", "e", "z", "o", "n", "e">>, <<"a", "m", "e", "r", "i", "c", "a", "s", " ", "o", "n", "l", "y">>, <<"u", "s", "a", " ", "o", "n", "l", "y">>,
     <<"u", "s", "-", "b", "a", "s", "e", "d">>, <<"e", "s", "t", "/", "p", "s", "t">>, <<"c", "a", "n", "a", "d", "a", " ", "o", "n", "l", "y">>, <<"c", "a", "n", "a", "d", "a">>,
     <<"n", "o", "r", "t", "h", " ", "a", "m", "e", "r", "i", "c", "a">>, <<"u", "s", " ", "o", "r", " ", "c", "a", "n", "a", "d", "a">>, <<"u", "s", "a", "/", "c", "a", "n", "a", "d", "a">>, <<"n", "a", " ", "o", "n", "l", "y">>,
     <<"n", "e", "w", " ", "y", "o", "r", "k">>, <<"s", "a", "n", " ", "f", "r", "a", "n", "c", "i", "s", "c", "o">>, <<"l", "o", "s", " ", "a", "n", "g", "e", "l", "e", "s">>, <<"s", "e", "a", "t", "t", "l", "e">>,
     <<"c", "h", "i", "c", "a", "g", "o">>, <<"a", "u", "s", "t", "i", "n">>, <<"b", "o", "s", "t", "o", "n">>, <<"d", "e", "n", "v", "e", "r">>, <<"m", "i", "a", "m", "i">>, <<"t", "o", "r", "o", "n", "t", "o">>,
     <<"v", "a", "n", "c", "o", "u", "v", "e", "r">>, <<"a", "s", "i", "a", " ", "o", "n", "l", "y">>, <<"a", "p", "a", "c", " ", "o", "n", "l", "y">>, <<"i", "n", "d", "i", "a", " ", "o", "n", "l", "y">>,
     <<"l", "a", "t", "a", "m", " ", "o", "n", "l", "y">>, <<"u", "n", "i", "t", "e", "d", " ", "s", "t", "a", "t", "e", "s">>, <<"s", "e", "a", "t", "t", "l", "e", ",", " ", "w", "a">>, <<"w", "a", "s", "h", "i", "n", "g", "t", "o", "n", ",", " ", "d", "c">>}

US_INDICATORS ==
    {<<"u", "n", "i", "t", "e", "d", " ", "s", "t", "a", "t", "e", "s">>, <<"u", "s", "a">>, <<"u", "s", " ">>, <<"u", ".", "s", ".">>, <<"a", "m", "e", "r", "i", "c", "a">>, <<"n", "e", "w", " ", "y", "o", "r", "k">>,
     <<"s", "a", "n", " ", "f", "r", "a", "n", "c", "i", "s", "c", "o">>, <<"l", "o", "s", " ", "a", "n", "g", "e", "l", "e", "s">>, <<"s", "e", "a", "t", "t", "l", "e">>, <<"c", "h", "i", "c", "a", "g", "o">>,
     <<"a", "u", "s", "t", "i", "n">>, <<"b", "o", "s", "t", "o", "n">>, <<"d", "e", "n", "v", "e", "r">>, <<"m", "i", "a", "m", "i">>, <<"w", "a", "s", "h", "i", "n", "g", "t", "o", "n">>,
     <<"c", "a", "l", "i", "f", "o", "r", "n", "i", "a">>, <<"t", "e", "x", "a", "s">>, <<",", " ", "n", "y">>, <<",", " ", "c", "a">>, <<",", " ", "w", "a">>, <<"t", "o", "r", "o", "n", "t", "o">>,
     <<"v", "a", "n", "c", "o", "u", "v", "e", "r">>, <<"c", "a", "n", "a", "d", "a">>}

EMEA_SIGNALS ==
    {<<"a", "n", "y", "w", "h", "e", "r", "e">>, <<"w", "o", "r", "l", "d", "w", "i", "d", "e">>, <<"g", "l", "o", "b", "a", "l">>, <<"e", "m", "e", "a">>, <<"e", "u", "r", "o", "p", "e">>, <<"e", "u">>,
     <<"f", "r", "a", "n", "c", "e">>, <<"p", "a", "r", "i", "s">>, <<"u", "k">>, <<"g", "e", "r", "m", "a", "n", "y">>, <<"n", "e", "t", "h", "e", "r", "l", "a", "n", "d", "s">>, <<"b", "e", "l", "g", "i", "u", "m">>,
     <<"s", "p", "a", "i", "n">>, <<"i", "t", "a", "l", "y">>, <<"s", "w", "i", "t", "z", "e", "r", "l", "a", "n", "d">>, <<"a", "u", "s", "t", "r", "i", "a">>, <<"s", "w", "e", "d", "e", "n">>,
     <<"n", "o", "r", "w", "a", "y">>, <<"d", "e", "n", "m", "a", "r", "k">>, <<"p", "o", "r", "t", "u", "g", "a", "l">>, <<"i", "r", "e", "l", "a", "n", "d">>, <<"p", "o", "l", "a", "n", "d">>,
     <<"c", "z", "e", "c", "h">>, <<"u", "n", "i", "t", "e", "d", " ", "k", "i", "n", "g", "d", "o", "m">>, <<"l", "o", "n", "d", "o", "n">>, <<"r", "o", "m", "a", "n", "i", "a">>, <<"h", "u", "n", "g", "a", "r", "y">>,
     <<"g", "r", "e", "e", "c", "e">>, <<"f", "i", "n", "l", "a", "n", "d">>, <<"c", "r", "o", "a", "t", "i", "a">>, <<"l", "u", "x", "e", "m", "b", "o", "u", "r", "g">>, <<"b", "e", "r", "l", "i", "n">>,
     <<"a", "m", "s", "t", "e", "r", "d", "a", "m">>, <<"b", "a", "r", "c", "e", "l", "o", "n", "a">>, <<"m", "u", "n", "i", "c", "h">>, <<"d", "u", "b", "l", "i", "n">>, <<"l", "i", "s", "b", "o", "n">>,
     <<"w", "a", "r", "s", "a", "w">>, <<"p", "r", "a", "g", "u", "e">>, <<"v", "i", "e", "n", "n", "a">>, <<"b", "r", "u", "s", "s", "e", "l", "s">>, <<"g", "m", "t">>, <<"c", "e", "t">>,
     <<"c", "e", "s", "t">>, <<"u", "t", "c", "+", "1">>, <<"u", "t", "c", "+", "2">>}

\* the two code points of the US flag emoji, U+1F1FA and U+1F1F8
UsFlag == <<"U+1F1FA", "U+1F1F8">>

\* any(kw in text for kw in keywords)
any_in(keywords, text) == \E kw \in keywords : in_str(kw, text)

\* text.startswith(prefix)
startswith(text, prefix) ==
    Len(text) >= Len(prefix) /\ SubSeq(text, 1, Len(prefix)) = prefix

RemoteJob(company, title, location, tags, source, url, posted_date) ==
    [company |-> company, title |-> title, location |-> location, tags |-> tags,
     source |-> source, url |-> url, posted_date |-> posted_date]

R1 == RemoteJob(<<"A", "c", "m", "e">>, <<"J", "a", "v", "a", " ", "D", "e", "v", "e", "l", "o", "p", "e", "r">>, <<"P", "a", "r", "i", "s", ",", " ", "F", "r", "a", "n", "c", "e">>, <<>>, "RemoteOK", "r1",
                <<"2", "0", "2", "4", "-", "0", "5", "-", "0", "1">>)
R2 == RemoteJob(<<" ", "A", "C", "M", "E", " ">>, <<"j", "a", "v", "a", " ", "d", "e", "v", "e", "l", "o", "p", "e", "r", " ">>, <<"R", "e", "m", "o", "t", "e">>, <<>>, "Arbeitnow", "r2",
                <<"2", "0", "2", "4", "-", "0", "5", "-", "0", "2">>)
R3 == RemoteJob(<<"G", "a", "m", "m", "a">>, <<"B", "a", "c", "k", "e", "n", "d", " ", "E", "n", "g", "i", "n", "e", "e", "r">>, <<"R", "e", "m", "o", "t", "e">>, <<>>, "Jobicy", "r3",
                <<"2", "0", "2", "4", "-", "0", "4", "-", "3", "0">>)
R4 == RemoteJob(<<"G", "a", "m", "m", "a">>, <<"B", "a", "c", "k", "e", "n", "d", " ", "E", "n", "g", "i", "n", "e", "e", "r">>, <<"R", "e", "m", "o", "t", "e">>, <<"L", "i", "k", "e", "l", "y", " ", "U", "S">>, "Jobicy", "r4",
                <<"2", "0", "2", "4", "-", "0", "4", "-", "3", "0">>)
R5 == RemoteJob(<<"B", "e", "t", "a">>, <<"P", "y", "t", "h", "o", "n", " ", "E", "n", "g", "i", "n", "e", "e", "r">>, <<"E", "u", "r", "o", "p", "e">>, <<"d", "j", "a", "n", "g", "o">>, "Remotive", "r5",
                <<"2", "0", "2", "4", "-", "0", "5", "-", "0", "1">>)
R6 == RemoteJob(<<"B", "e", "t", "a">>, <<"P", "y", "t", "h", "o", "n", " ", "E", "n", "g", "i", "n", "e", "e", "r">>, <<"E", "u", "r", "o", "p", "e">>, <<"s", "p", "r", "i", "n", "g">>, "Remotive", "r6",
                <<"2", "0", "2", "4", "-", "0", "5", "-", "0", "1">>)
R7 == RemoteJob(<<"D", "e", "l", "t", "a">>, <<"S", "e", "n", "i", "o", "r", " ", "S", "o", "f", "t", "w", "a", "r", "e", " ", "E", "n", "g", "i", "n", "e", "e", "r">>, <<"U", "S", "A", " ", "o", "r", " ", "E", "u", "r", "o", "p", "e">>, <<>>,
                "Remotive", "r7", <<"2", "0", "2", "4", "-", "0", "5", "-", "0", "2">>)
R8 == RemoteJob(<<"D", "e", "l", "t", "a">>, <<"F", "r", "o", "n", "t", "e", "n", "d", " ", "J", "a", "v", "a", " ", "D", "e", "v", "e", "l", "o", "p", "e", "r">>, <<"B", "e", "r", "l", "i", "n">>, <<>>, "Remotive", "r8",
                <<"2", "0", "2", "4", "-", "0", "5", "-", "0", "2">>)
R9 == RemoteJob(<<"A", "c", "m", "e">>, <<"J", "a", "v", "a", " ", "D", "e", "v", "e", "l", "o", "p", "e", "r">>, UsFlag \o <<" ", "R", "e", "m", "o", "t", "e", ",", " ", "E", "u", "r", "o", "p", "e">>, <<>>,
                "RemoteOK", "r9", <<"2", "0", "2", "4", "-", "0", "5", "-", "0", "1">>)
R10 == RemoteJob(<<"O", "m", "e", "g", "a">>, <<"J", "a", "v", "a", " ", "E", "n", "g", "i", "n", "e", "e", "r">>, <<"R", "e", "m", "o", "t", "e", ",", " ", "U", "S", "A">>, <<"e", "m", "e", "a">>, "Remotive", "r10",
                 <<"2", "0", "2", "3", "-", "1", "2", "-", "3", "1">>)
R11 == RemoteJob(<<"O", "m", "e", "g", "a">>, <<"J", "a", "v", "a", " ", "E", "n", "g", "i", "n", "e", "e", "r">>, <<"R", "e", "m", "o", "t", "e", ",", " ", "U", "S", "A">>, <<>>, "Remotive", "r11",
                 <<"2", "0", "2", "3", "-", "1", "2", "-", "3", "1">>)
R12 == RemoteJob(<<"O", "m", "e", "g", "a">>, <<"J", "a", "v", "a", " ", "E", "n", "g", "i", "n", "e", "e", "r">>, UsFlag \o <<" ", "R", "e", "m", "o", "t", "e", ",", " ", "U", "S", "A">>, <<"e", "m", "e", "a">>,
                 "Remotive", "r12", <<"2", "0", "2", "3", "-", "1", "2", "-", "3", "1">>)
R13 == RemoteJob(<<"S", "i", "g", "m", "a">>, <<"B", "a", "c", "k", "e", "n", "d", " ", "D", "e", "v", "e", "l", "o", "p", "e", "r">>, <<"N", "e", "w", " ", "Y", "o", "r", "k", " ", "o", "r", " ", "L", "o", "n", "d", "o", "n">>, <<>>,
                 "Remotive", "r13", <<"2", "0", "2", "4", "-", "0", "5", "-", "0", "2">>)
R14 == RemoteJob(<<"S", "i", "g", "m", "a">>, <<"J", "a", "v", "a", " ", "D", "e", "v", "e", "l", "o", "p", "e", "r">>, <<"N", "e", "w", " ", "Y", "o", "r", "k">>, <<>>, "Arbeitnow", "r14",
                 <<"2", "0", "2", "4", "-", "0", "5", "-", "0", "2">>)
R15 == RemoteJob(<<"Z", "e", "t", "a">>, <<"P", "r", "o", "d", "u", "c", "t", " ", "M", "a", "n", "a", "g", "e", "r">>, <<"P", "a", "r", "i", "s">>, <<>>, "RemoteOK", "r15",
                 <<"2", "0", "2", "4", "-", "0", "5", "-", "0", "1">>)

RemoteJobs == {R1, R2, R3, R4, R5, R6, R7, R8, R9, R10, R11, R12, R13, R14, R15}

java_backend_signal_mut_always(search_text) == TRUE

\* has_java_backend: any(sig in search_text for sig in JAVA_BACKEND_SIGNALS)
java_backend_signal(search_text) == any_in(JAVA_BACKEND_SIGNALS, search_text)

location_excluded_mut_override(loc_tags) ==
    any_in(LOCATION_EXCLUDE, loc_tags) /\ ~any_in(EMEA_SIGNALS, loc_tags)

\* any(exc in loc_tags for exc in LOCATION_EXCLUDE)
location_excluded(loc_tags) == any_in(LOCATION_EXCLUDE, loc_tags)

emea_signal_mut_never(loc_tags) == FALSE

\* has_emea: any(sig in loc_tags for sig in EMEA_SIGNALS)
emea_signal(loc_tags) == any_in(EMEA_SIGNALS, loc_tags)

eu_focused_mut_none(source) == FALSE

\* job.get('source') in EU_FOCUSED_SOURCES
eu_focused(source) == source \in EU_FOCUSED_SOURCES

\* the body of the loop of filter_jobs: TRUE when the job is appended
filter_keeps(job) ==
    LET title_lower == lower(job.title)
        location_lower == lower(job.location)
        tags_lower == lower(job.tags)
        search_text == title_lower \o <<" ">> \o tags_lower
        matches_primary == any_in(ROLE_KEYWORDS, search_text)
        matches_python == any_in(PYTHON_SECONDARY_KEYWORDS, search_text)
        has_java_backend == java_backend_signal(search_text)
        loc_tags == location_lower \o <<" ">> \o tags_lower
        loc_title == location_lower \o <<" ">> \o title_lower
        has_us == any_in(US_INDICATORS, loc_title)
        has_emea == emea_signal(loc_tags)
        has_emea_loc == any_in(LOCATION_INCLUDE, loc_tags)
        enriched_us == \/ in_str(<<"l", "i", "k", "e", "l", "y", " ", "u", "s">>, tags_lower)
                       \/ startswith(tags_lower, <<"u", "s", " ">>)
    IN  IF any_in(ROLE_EXCLUDE, search_text) THEN FALSE
        ELSE IF matches_python /\ ~matches_primary /\ ~has_java_backend THEN FALSE
        ELSE IF ~(matches_python /\ ~matches_primary) /\ ~matches_primary THEN FALSE
        ELSE IF location_excluded(loc_tags) THEN FALSE
        ELSE IF in_str(UsFlag, job.location) THEN FALSE
        ELSE IF has_us /\ ~has_emea THEN FALSE
        ELSE IF eu_focused(job.source) THEN TRUE
        ELSE IF has_emea_loc THEN TRUE
        ELSE job.source \in RELAXED_LOCATION_SOURCES /\ ~has_us /\ ~enriched_us

\* Location priority tiers for sorting, in the order the code tries them
LOCATION_PRIORITY ==
    <<[keywords |-> {<<"p", "a", "r", "i", "s">>}, tier |-> 0],
      [keywords |-> {<<"f", "r", "a", "n", "c", "e">>}, tier |-> 1],
      [keywords |-> {<<"e", "m", "e", "a">>, <<"e", "u", "r", "o", "p", "e">>, <<"e", "u">>, <<"g", "e", "r", "m", "a", "n", "y">>, <<"n", "e", "t", "h", "e", "r", "l", "a", "n", "d", "s">>,
                     <<"b", "e", "l", "g", "i", "u", "m">>, <<"s", "p", "a", "i", "n">>, <<"i", "t", "a", "l", "y">>, <<"s", "w", "i", "t", "z", "e", "r", "l", "a", "n", "d">>, <<"a", "u", "s", "t", "r", "i", "a">>,
                     <<"p", "o", "l", "a", "n", "d">>, <<"c", "z", "e", "c", "h">>, <<"s", "w", "e", "d", "e", "n">>, <<"n", "o", "r", "w", "a", "y">>, <<"d", "e", "n", "m", "a", "r", "k">>,
                     <<"p", "o", "r", "t", "u", "g", "a", "l">>, <<"i", "r", "e", "l", "a", "n", "d">>, <<"c", "e", "t">>, <<"c", "e", "s", "t">>,
                     <<"c", "e", "n", "t", "r", "a", "l", " ", "e", "u", "r", "o", "p", "e", "a", "n">>}, tier |-> 2],
      [keywords |-> {<<"u", "k">>, <<"u", "n", "i", "t", "e", "d", " ", "k", "i", "n", "g", "d", "o", "m">>, <<"l", "o", "n", "d", "o", "n">>, <<"b", "r", "i", "t", "a", "i", "n">>}, tier |-> 3],
      [keywords |-> {<<"w", "o", "r", "l", "d", "w", "i", "d", "e">>, <<"a", "n", "y", "w", "h", "e", "r", "e">>, <<"g", "l", "o", "b", "a", "l">>}, tier |-> 4]>>

\* the tier of the first entry of LOCATION_PRIORITY with a keyword in the
\* lower-cased location, 5 when there is none
get_location_tier(job) ==
    LET loc == lower(job.location)
        hits == {i \in 1..Len(LOCATION_PRIORITY) :
                    any_in(LOCATION_PRIORITY[i].keywords, loc)}
        first == CHOOSE i \in hits : \A k \in hits : i <= k
    IN  IF hits = {} THEN 5 ELSE LOCATION_PRIORITY[first].tier

\* U+00E9 is e with an acute accent, one character of the third word
is_explicitly_remote(job) ==
    LET text == lower(job.title) \o <<" ">> \o lower(job.location)
        teletravail == <<"t">> \o <<"U+00E9">> \o <<"l">> \o <<"U+00E9">> \o <<"t", "r", "a", "v", "a", "i", "l">>
    IN  \/ in_str(<<"r", "e", "m", "o", "t", "e">>, text)
        \/ in_str(<<"f", "u", "l", "l", " ", "r", "e", "m", "o", "t", "e">>, text)
        \/ in_str(teletravail, text)

\* the characters of a posted_date and their code points
ord == LET digits == <<"0", "1", "2", "3", "4", "5", "6", "7", "8", "9">>
       IN  [c \in {"-"} \cup Range(digits) |->
               IF c = "-" THEN 45 ELSE 47 + (CHOOSE i \in 1..10 : digits[i] = c)]

\* a < b on Python strings: by the code points of the first position where
\* they differ, a proper prefix being the smaller
RECURSIVE str_lt(_, _)
str_lt(a, b) ==
    IF b = <<>> THEN FALSE
    ELSE IF a = <<>> THEN TRUE
    ELSE IF Head(a) = Head(b) THEN str_lt(Tail(a), Tail(b))
    ELSE ord[Head(a)] < ord[Head(b)]

\* s[::-1]
reversed(s) == [i \in 1..Len(s) |-> s[Len(s) + 1 - i]]

\* the key of sort_jobs
sort_key(job) ==
    <<get_location_tier(job),
      IF is_explicitly_remote(job) THEN 0 ELSE 1,
      reversed(job.posted_date)>>

\* What the code computes from a listing's text, evaluated once per listing:
\*   keeps:    whether filter_jobs appends it
\*   key:      (job['company'].lower().strip(), job['title'].lower().strip())
\*   sort_key: the key sort_jobs gives it
RemoteText == [j \in RemoteJobs |->
                  [keeps |-> filter_keeps(j),
                   key |-> <<strip(lower(j.company)), strip(lower(j.title))>>,
                   sort_key |-> sort_key(j)]]

\* k1 < k2 on the key tuples of sort_jobs
key_lt(k1, k2) ==
    \/ k1[1] < k2[1]
    \/ k1[1] = k2[1] /\ k1[2] < k2[2]
    \/ k1[1] = k2[1] /\ k1[2] = k2[2] /\ str_lt(k1[3], k2[3])

\* sorted(jobs, key=...): ascending by key, listings of equal keys in input
\* order
RECURSIVE sort_jobs(_)
sort_jobs(jobs) ==
    IF jobs = <<>> THEN <<>>
    ELSE LET rest == sort_jobs(SubSeq(jobs, 1, Len(jobs) - 1))
             job == jobs[Len(jobs)]
             n == Cardinality({k \in 1..Len(rest) :
                      ~key_lt(RemoteText[job].sort_key, RemoteText[rest[k]].sort_key)})
         IN  SubSeq(rest, 1, n) \o <<job>> \o SubSeq(rest, n + 1, Len(rest))

filter_jobs_mut_skip_first(jobs) ==
    IF jobs = <<>> THEN <<>>
    ELSE SelectSeq(Tail(jobs), LAMBDA job : RemoteText[job].keeps)

filter_jobs(jobs) == SelectSeq(jobs, LAMBDA job : RemoteText[job].keeps)

\* the loop of dedup_jobs over the jobs not yet visited
RECURSIVE dedup_loop(_, _, _)
dedup_loop(jobs, seen, unique) ==
    IF jobs = <<>> THEN unique
    ELSE LET job == Head(jobs)
             key == RemoteText[job].key
         IN  IF key \notin seen
             THEN dedup_loop(Tail(jobs), seen \cup {key}, Append(unique, job))
             ELSE dedup_loop(Tail(jobs), seen, unique)

RECURSIVE dedup_jobs_mut_exact_key(_)
dedup_jobs_mut_exact_key(jobs) ==
    IF jobs = <<>> THEN <<>>
    ELSE LET rest == dedup_jobs_mut_exact_key(SubSeq(jobs, 1, Len(jobs) - 1))
             job == jobs[Len(jobs)]
         IN  IF \E k \in 1..Len(rest) : /\ rest[k].company = job.company
                                        /\ rest[k].title = job.title
             THEN rest ELSE Append(rest, job)

dedup_jobs(jobs) == dedup_loop(jobs, {}, <<>>)

\* the most listings the fetchers return together
MaxJobs == 3

RemoteInit ==
    /\ file = NoFile
    /\ HotIdle
    /\ RtOff
    /\ OthersOff
    /\ remote_pc = "fetched"
    /\ all_jobs \in UNION {[1..n -> RemoteJobs] : n \in 0..MaxJobs}
    /\ filtered = <<>>
    /\ deduped = <<>>
    /\ refiltered = <<>>
    /\ sorted_jobs = <<>>

\* main: filtered = filter_jobs(all_jobs)
Filter ==
    /\ remote_pc = "fetched"
    /\ filtered' = filter_jobs(all_jobs)
    /\ remote_pc' = "filtered"
    /\ UNCHANGED <<all_jobs, deduped, refiltered, sorted_jobs>>
    /\ UNCHANGED <<hotVars, rtVars, otherVars>>

\* main: deduped = dedup_jobs(filtered)
Dedup ==
    /\ remote_pc = "filtered"
    /\ deduped' = dedup_jobs(filtered)
    /\ remote_pc' = "deduped"
    /\ UNCHANGED <<all_jobs, filtered, refiltered, sorted_jobs>>
    /\ UNCHANGED <<hotVars, rtVars, otherVars>>

\* filter_jobs applied once more, to the filtered and deduped list
Refilter ==
    /\ remote_pc = "deduped"
    /\ refiltered' = filter_jobs(deduped)
    /\ remote_pc' = "refiltered"
    /\ UNCHANGED <<all_jobs, filtered, deduped, sorted_jobs>>
    /\ UNCHANGED <<hotVars, rtVars, otherVars>>

\* main: sorted_jobs = sort_jobs(deduped)
Sort ==
    /\ remote_pc = "deduped"
    /\ sorted_jobs' = sort_jobs(deduped)
    /\ remote_pc' = "sorted"
    /\ UNCHANGED <<all_jobs, filtered, deduped, refiltered>>
    /\ UNCHANGED <<hotVars, rtVars, otherVars>>

RemoteNext == Filter \/ Dedup \/ Refilter \/ Sort

RemoteSpec == RemoteInit /\ [][RemoteNext]_vars

---------------------------------------------------------------------------
(* read_application_tracker: the rows of the spreadsheet are merged into    *)
(* one entry per company.                                                   *)

\* the most rows the sheet has after its header
MaxRows == 3

\* the cells of a row that are read: company, role link and status are the
\* cell's text or None; hr_contacts is what parse_hr_contacts returns for
\* the HR cell
SheetCells ==
    {[company |-> c, role_link |-> x.role_link, status |-> st,
      hr_contacts |-> x.hr_contacts] :
        c \in {<<" ", "A", "c", "m", "e">>, <<"B", "e", "t", "a">>},
        st \in {<<"I", "n", " ", "R", "e", "v", "i", "e", "w">>, <<"I", "n", " ", "p", "r", "o", "g", "r", "e", "s", "s">>, <<"D", "o", "n", "e">>, <<"R", "e", "j", "e", "c", "t", "e", "d">>, None},
        x \in {[role_link |-> <<"h", "t", "t", "p", "s", ":", "/", "/", "a">>, hr_contacts |-> <<"contact">>],
               [role_link |-> <<"s", "e", "e", " ", "m", "a", "i", "l">>, hr_contacts |-> <<>>]}}
    \cup {[company |-> <<"P", "r", "o", "g", "r", "a", "m", "/", "P", "r", "o", "d", "u", "c", "t", " ", "r", "o", "l", "e", "s">>, role_link |-> None,
           status |-> None, hr_contacts |-> <<>>]}

priority == {[k |-> <<"r", "e", "v", "i", "e", "w">>, v |-> 5], [k |-> <<"p", "r", "o", "g", "r", "e", "s", "s">>, v |-> 4],
             [k |-> <<"d", "o", "n", "e">>, v |-> 3], [k |-> <<"r", "e", "j", "e", "c", "t">>, v |-> 2]}

priority_in_mut_flat(status) == 0

\* max([v for k, v in priority.items() if k in status] or [0])
priority_in(status) ==
    LET found == {e.v : e \in {x \in priority : in_str(x.k, status)}} \cup {0}
    IN  CHOOSE v \in found : \A w \in found : w <= v

\* the body of the loop over the rows: the dict after the row
read_row(tr, row) ==
    IF row.company \in {None, <<>>} \/ in_str(<<"P", "r", "o", "g", "r", "a", "m", "/", "P", "r", "o", "d", "u", "c", "t">>, row.company)
    THEN tr
    ELSE LET company_clean == strip(row.company)
             stripped == IF row.role_link \in {None, <<>>} THEN <<>>
                         ELSE strip(row.role_link)
             role_link_str == IF stripped # <<>> /\ ~startswith(stripped, <<"h", "t", "t", "p">>)
                              THEN <<>> ELSE stripped
             entry == [role |-> row.role, role_link |-> role_link_str,
                       status |-> row.status, hr_contacts |-> row.hr_contacts]
         IN  IF company_clean \notin DOMAIN tr
             THEN [c \in DOMAIN tr \cup {company_clean} |->
                      IF c = company_clean THEN entry ELSE tr[c]]
             ELSE LET current_status == IF tr[company_clean].status = None
                                        THEN <<"n", "o", "n", "e">>
                                        ELSE lower(tr[company_clean].status)
                      new_status == IF row.status \in {None, <<>>} THEN <<>>
                                    ELSE lower(row.status)
                      kept == IF priority_in(new_status) > priority_in(current_status)
                              THEN entry ELSE tr[company_clean]
                      hr == IF kept.hr_contacts = <<>> /\ row.hr_contacts # <<>>
                            THEN row.hr_contacts ELSE kept.hr_contacts
                      link == IF kept.role_link = <<>> /\ role_link_str # <<>>
                              THEN role_link_str ELSE kept.role_link
                  IN  [tr EXCEPT ![company_clean] =
                          [role |-> kept.role, role_link |-> link,
                           status |-> kept.status, hr_contacts |-> hr]]

RECURSIVE read_rows(_, _)
read_rows(tr, rows) ==
    IF rows = <<>> THEN tr ELSE read_rows(read_row(tr, Head(rows)), Tail(rows))

\* the sheet has up to MaxRows rows; the role cell of row i holds a text of
\* its own, written i
TrackerInit ==
    /\ file = NoFile
    /\ HotIdle
    /\ RtOff
    /\ RemoteOff
    /\ tracker_pc = "start"
    /\ \E n \in 0..MaxRows : \E cells \in [1..n -> SheetCells] :
           sheet_rows = [i \in 1..n |-> [company |-> cells[i].company, role |-> i,
                                         role_link |-> cells[i].role_link,
                                         status |-> cells[i].status,
                                         hr_contacts |-> cells[i].hr_contacts]]
    /\ tracker_entries = NoJobs
    /\ TailorOff
    /\ history_file = NoHistory
    /\ marked_jobs = <<>>
    /\ net = NoNet

\* read_application_tracker(): the dict built from the rows, or {} when the
\* workbook cannot be read
ReadTracker ==
    /\ tracker_pc = "start"
    /\ \/ /\ tracker_entries' = read_rows(NoJobs, sheet_rows)
          /\ tracker_pc' = "read"
       \/ /\ tracker_entries' = NoJobs
          /\ tracker_pc' = "failed"
    /\ UNCHANGED <<sheet_rows, history_file, marked_jobs, net>>
    /\ UNCHANGED <<tailor_pc, companies, company_idx, role_idx, attempt, posts, outcomes>>
    /\ UNCHANGED <<hotVars, rtVars, remoteVars>>

TrackerNext == ReadTracker

TrackerSpec == TrackerInit /\ [][TrackerNext]_vars

---------------------------------------------------------------------------
(* The remote search run after run: mark_new_jobs and previous_jobs.json   *)

\* the listings the fetchers return in the runs
RunJobs == {R1, R2, R3, R6, R7, R10, R15}

\* load_previous_jobs(): the set of the key pairs of the file, or the empty
\* set when the file does not exist
load_previous_jobs(f) ==
    IF f.exists THEN {f.keys[i] : i \in DOMAIN f.keys} ELSE {}

\* save_current_jobs(jobs): the file holds the list of the listings' keys
save_current_jobs(jobs) ==
    [exists |-> TRUE, keys |-> [i \in 1..Len(jobs) |-> RemoteText[jobs[i]].key]]

mark_new_jobs_mut_all_new(jobs, previous_keys) ==
    [i \in 1..Len(jobs) |-> [job |-> jobs[i], is_new |-> TRUE]]

\* mark_new_jobs(jobs, previous_keys): job['is_new'] = key not in previous_keys
mark_new_jobs(jobs, previous_keys) ==
    [i \in 1..Len(jobs) |->
        [job |-> jobs[i], is_new |-> RemoteText[jobs[i]].key \notin previous_keys]]

HistoryInit ==
    /\ file = NoFile
    /\ HotIdle
    /\ RtOff
    /\ RemoteOff
    /\ tracker_pc = "off"
    /\ sheet_rows = <<>>
    /\ tracker_entries = NoJobs
    /\ history_file = NoHistory
    /\ marked_jobs = <<>>
    /\ net = NoNet
    /\ TailorOff

\* main(): one run of the remote search on the listings the fetchers return
RunMain ==
    \E fetched \in UNION {[1..n -> RunJobs] : n \in 0..MaxJobs} :
        LET run_sorted == sort_jobs(dedup_jobs(filter_jobs(fetched)))
            previous_keys == load_previous_jobs(history_file)
        IN  /\ marked_jobs' = mark_new_jobs(run_sorted, previous_keys)
            /\ history_file' = save_current_jobs(run_sorted)
            /\ UNCHANGED <<tracker_pc, sheet_rows, tracker_entries, net>>
            /\ UNCHANGED <<tailor_pc, companies, company_idx, role_idx, attempt, posts, outcomes>>
            /\ UNCHANGED <<hotVars, rtVars, remoteVars>>

HistoryNext == RunMain

HistorySpec == HistoryInit /\ [][HistoryNext]_vars

---------------------------------------------------------------------------
(* The fetchers of the remote search                                       *)

\* What a job board answers to one request: a failure, or a list of items.
\* An item has a guid, Arbeitnow's remote flag, and is bad when mapping it
\* raises (a null where the code slices or joins: item.get('date', '')[:10],
\* ', '.join(item.get('tags', []))).
Responses ==
    LET Item(g, r, b) == [guid |-> g, remote |-> r, bad |-> b]
        Ok(items) == [ok |-> TRUE, items |-> items]
    IN  {Failed, Ok(<<>>),
         Ok(<<Item("g1", TRUE, FALSE)>>),
         Ok(<<Item("g1", TRUE, FALSE), Item("g2", TRUE, FALSE)>>),
         Ok(<<Item("g2", FALSE, TRUE), Item("g3", TRUE, FALSE)>>),
         Ok(<<Item("g3", TRUE, FALSE), Item("g4", TRUE, TRUE)>>)}

\* The for loop over the items of one response, inside the try: a listing is
\* appended for each item until one raises. Arbeitnow skips the items that are
\* not remote before it maps them; We Work Remotely skips the guids it has
\* seen. A listing is written as its source and the guid of its item.
RECURSIVE append_items(_, _, _, _)
append_items(items, source, jobs, seen_guids) ==
    IF items = <<>> THEN [jobs |-> jobs, seen_guids |-> seen_guids, raised |-> FALSE]
    ELSE LET item == Head(items)
         IN  IF source = "Arbeitnow" /\ ~item.remote
             THEN append_items(Tail(items), source, jobs, seen_guids)
             ELSE IF source = "WWR" /\ item.guid \in seen_guids
             THEN append_items(Tail(items), source, jobs, seen_guids)
             ELSE IF source # "WWR" /\ item.bad
             THEN [jobs |-> jobs, seen_guids |-> seen_guids, raised |-> TRUE]
             ELSE append_items(Tail(items), source,
                               Append(jobs, [source |-> source, guid |-> item.guid]),
                               seen_guids \cup {item.guid})

\* fetch_remoteok(): one request; the items are data[1:]
fetch_remoteok(resp) ==
    IF ~resp.ok THEN <<>>
    ELSE append_items(SubSeq(resp.items, 2, Len(resp.items)), "RemoteOK", <<>>, {}).jobs

fetch_arbeitnow_mut_empty_on_failure(pages) ==
    LET RECURSIVE loop(_, _)
        loop(page, jobs) ==
            IF page > 3 THEN jobs
            ELSE IF ~pages[page].ok THEN <<>>
            ELSE IF pages[page].items = <<>> THEN jobs
            ELSE LET r == append_items(pages[page].items, "Arbeitnow", jobs, {})
                 IN  IF r.raised THEN <<>> ELSE loop(page + 1, r.jobs)
    IN  loop(1, <<>>)

\* fetch_arbeitnow(): pages 1 to 3 inside one try; an empty page ends the
\* loop, an exception ends it too, and jobs is returned in both cases
fetch_arbeitnow(pages) ==
    LET RECURSIVE loop(_, _)
        loop(page, jobs) ==
            IF page > 3 THEN jobs
            ELSE IF ~pages[page].ok THEN jobs
            ELSE IF pages[page].items = <<>> THEN jobs
            ELSE LET r == append_items(pages[page].items, "Arbeitnow", jobs, {})
                 IN  IF r.raised THEN r.jobs ELSE loop(page + 1, r.jobs)
    IN  loop(1, <<>>)

\* fetch_weworkremotely(): the two feeds, each inside its own try
fetch_weworkremotely(feeds) ==
    LET RECURSIVE loop(_, _, _)
        loop(feed, jobs, seen_guids) ==
            IF feed > 2 THEN jobs
            ELSE IF ~feeds[feed].ok THEN loop(feed + 1, jobs, seen_guids)
            ELSE LET r == append_items(feeds[feed].items, "WWR", jobs, seen_guids)
                 IN  loop(feed + 1, r.jobs, r.seen_guids)
    IN  loop(1, <<>>, {})

FetchInit ==
    /\ file = NoFile
    /\ HotIdle
    /\ RtOff
    /\ remote_pc = "main"
    /\ all_jobs = <<>>
    /\ filtered = <<>>
    /\ deduped = <<>>
    /\ refiltered = <<>>
    /\ sorted_jobs = <<>>
    /\ tracker_pc = "off"
    /\ sheet_rows = <<>>
    /\ tracker_entries = NoJobs
    /\ history_file = NoHistory
    /\ marked_jobs = <<>>
    /\ TailorOff
    /\ net \in [remoteok : Responses, arbeitnow : [1..3 -> Responses],
                wwr : [1..2 -> Responses]]

\* main: all_jobs.extend(fetch_remoteok())
FetchRemoteOK ==
    /\ remote_pc = "main"
    /\ all_jobs' = all_jobs \o fetch_remoteok(net.remoteok)
    /\ remote_pc' = "remoteok"
    /\ UNCHANGED <<filtered, deduped, refiltered, sorted_jobs>>
    /\ UNCHANGED <<hotVars, rtVars, otherVars>>

\* main: all_jobs.extend(fetch_arbeitnow())
FetchArbeitnow ==
    /\ remote_pc = "remoteok"
    /\ all_jobs' = all_jobs \o fetch_arbeitnow(net.arbeitnow)
    /\ remote_pc' = "arbeitnow"
    /\ UNCHANGED <<filtered, deduped, refiltered, sorted_jobs>>
    /\ UNCHANGED <<hotVars, rtVars, otherVars>>

\* main: all_jobs.extend(fetch_weworkremotely())
FetchWWR ==
    /\ remote_pc = "arbeitnow"
    /\ all_jobs' = all_jobs \o fetch_weworkremotely(net.wwr)
    /\ remote_pc' = "wwr"
    /\ UNCHANGED <<filtered, deduped, refiltered, sorted_jobs>>
    /\ UNCHANGED <<hotVars, rtVars, otherVars>>

FetchNext == FetchRemoteOK \/ FetchArbeitnow \/ FetchWWR

FetchSpec == FetchInit /\ [][FetchNext]_vars

---------------------------------------------------------------------------
(* The resume tailor: run_tailor, tailor_one and call_gemini               *)

\* call_gemini(resume_text, job_description, max_retries=3)
max_retries == 3

\* the most companies read_done_companies returns
MaxCompanies == 2

\* What read_done_companies returns: for each company the number of its
\* roles, and whether its tailored resume already exists in the output
\* directory.
Companies ==
    UNION {[1..n -> [roles : 1..2, exists : BOOLEAN]] : n \in 0..MaxCompanies}

TailorInit ==
    /\ file = NoFile
    /\ HotIdle
    /\ RtOff
    /\ RemoteOff
    /\ tracker_pc = "off"
    /\ sheet_rows = <<>>
    /\ tracker_entries = NoJobs
    /\ history_file = NoHistory
    /\ marked_jobs = <<>>
    /\ net = NoNet
    /\ tailor_pc = "run_tailor"
    /\ companies \in Companies
    /\ company_idx = 1
    /\ role_idx = 1
    /\ attempt = 0
    /\ posts = 0
    /\ outcomes = <<>>

\* tailor_one returned False to the loop over the roles in run_tailor: the
\* next role of the company is tried, and after the last one the company is
\* counted as failed and the loop goes on to the next company
ReturnFalse ==
    IF role_idx < companies[company_idx].roles
    THEN /\ role_idx' = role_idx + 1
         /\ tailor_pc' = "tailor_one"
         /\ UNCHANGED <<company_idx, outcomes>>
    ELSE /\ outcomes' = Append(outcomes, "failed")
         /\ company_idx' = company_idx + 1
         /\ tailor_pc' = "run_tailor"
         /\ UNCHANGED role_idx

\* run_tailor: the top of the loop over the companies, up to the first call
\* of tailor_one; after the last company the function ends
RunTailor ==
    /\ tailor_pc = "run_tailor"
    /\ \/ /\ company_idx > Len(companies)
          /\ tailor_pc' = "done"
          /\ UNCHANGED <<company_idx, role_idx, outcomes>>
       \/ /\ company_idx <= Len(companies)
          /\ companies[company_idx].exists
          /\ outcomes' = Append(outcomes, "skipped")
          /\ company_idx' = company_idx + 1
          /\ UNCHANGED <<tailor_pc, role_idx>>
       \/ /\ company_idx <= Len(companies)
          /\ ~companies[company_idx].exists
          /\ role_idx' = 1
          /\ tailor_pc' = "tailor_one"
          /\ UNCHANGED <<company_idx, outcomes>>
    /\ UNCHANGED <<companies, attempt, posts>>
    /\ UNCHANGED <<tracker_pc, sheet_rows, tracker_entries, history_file, marked_jobs, net>>
    /\ UNCHANGED <<hotVars, rtVars, remoteVars>>

\* tailor_one, up to the call of call_gemini: the job description is
\* fetched; too short a one returns False
TailorOne ==
    /\ tailor_pc = "tailor_one"
    /\ \/ /\ ReturnFalse
          /\ UNCHANGED <<attempt, posts>>
       \/ /\ tailor_pc' = "call_gemini"
          /\ attempt' = 0
          /\ posts' = 0
          /\ UNCHANGED <<company_idx, role_idx, outcomes>>
    /\ UNCHANGED companies
    /\ UNCHANGED <<tracker_pc, sheet_rows, tracker_entries, history_file, marked_jobs, net>>
    /\ UNCHANGED <<hotVars, rtVars, remoteVars>>

GeminiRequest_mut_no_count ==
    /\ tailor_pc = "call_gemini"
    /\ attempt < max_retries
    /\ posts' = posts + 1
    /\ UNCHANGED <<tailor_pc, attempt, company_idx, role_idx, outcomes>>
    /\ UNCHANGED companies
    /\ UNCHANGED <<tracker_pc, sheet_rows, tracker_entries, history_file, marked_jobs, net>>
    /\ UNCHANGED <<hotVars, rtVars, remoteVars>>

\* call_gemini: one pass of `for attempt in range(max_retries)`, with what
\* follows it in tailor_one when the call returns or raises. The request is
\* answered by 429 (the loop continues), by a usable result (apply_tailoring
\* then succeeds or raises), or by anything else (call_gemini raises).
GeminiRequest ==
    /\ tailor_pc = "call_gemini"
    /\ attempt < max_retries
    /\ posts' = posts + 1
    /\ \/ /\ attempt' = attempt + 1
          /\ UNCHANGED <<tailor_pc, company_idx, role_idx, outcomes>>
       \/ /\ outcomes' = Append(outcomes, "generated")
          /\ company_idx' = company_idx + 1
          /\ tailor_pc' = "run_tailor"
          /\ UNCHANGED <<attempt, role_idx>>
       \/ /\ ReturnFalse
          /\ UNCHANGED attempt
    /\ UNCHANGED companies
    /\ UNCHANGED <<tracker_pc, sheet_rows, tracker_entries, history_file, marked_jobs, net>>
    /\ UNCHANGED <<hotVars, rtVars, remoteVars>>

\* call_gemini: the loop has ended, raise Exception("Gemini rate limit
\* exceeded after all retries"); tailor_one catches it and returns False
GeminiExhausted ==
    /\ tailor_pc = "call_gemini"
    /\ attempt >= max_retries
    /\ ReturnFalse
    /\ UNCHANGED <<companies, attempt, posts>>
    /\ UNCHANGED <<tracker_pc, sheet_rows, tracker_entries, history_file, marked_jobs, net>>
    /\ UNCHANGED <<hotVars, rtVars, remoteVars>>

TailorNext == RunTailor \/ TailorOne \/ GeminiRequest \/ GeminiExhausted

TailorSpec == TailorInit /\ [][TailorNext]_vars

\* the program keeps running: every request is answered or times out, and
\* every sleep ends
TailorFairSpec == TailorSpec /\ WF_vars(TailorNext)

---------------------------------------------------------------------------
(* Properties of the hot-jobs commands, stated for Spec                    *)

\* C1: from an absent sticky file, after any sequence of reconciliation
\* runs, --remove commands and --refresh commands, every category of the
\* persisted current_jobs holds at most 5 entries.
C1_AtMostFivePerCategory ==
    \A cat \in DOMAIN load_hot_jobs_current(file) :
        Len(load_hot_jobs_current(file)[cat]) <= 5

\* a reconciliation run has filled a category that was short up to 5, in a
\* file that a --remove command has written to
C1_Witness ==
    /\ pc = "done"
    /\ load_hot_jobs_blocklist(file) # {}
    /\ \E cat \in DOMAIN current \cap DOMAIN load_hot_jobs_current(file) :
           /\ Len(current[cat]) < 5
           /\ Len(load_hot_jobs_current(file)[cat]) = 5

\* C2: after a reconciliation run, a listing that was in a category's
\* persisted list before the run, and whose lower-cased company contains or
\* is contained in the lower-cased name of a tracker company, is in that
\* category's list neither in the returned result nor in the file.
C2_TrackerMatchRemoved ==
    pc = "done" =>
        \A cat \in DOMAIN current : \A i \in 1..Len(current[cat]) :
            LET L == current[cat][i]
                company == lower(L.company)
            IN  (\E name \in tracker : \/ in_str(lower(name), company)
                                       \/ in_str(company, lower(name)))
                => /\ cat \in DOMAIN hot_jobs_by_category
                          => L \notin Range(hot_jobs_by_category[cat])
                   /\ cat \in DOMAIN load_hot_jobs_current(file)
                          => L \notin Range(load_hot_jobs_current(file)[cat])

\* a run whose tracker holds "AB Co" has met the listing of company "Ab" in
\* the persisted list, and the category is still persisted after the run
C2_Witness ==
    /\ pc = "done"
    /\ tracker = {<<"A", "B", " ", "C", "o">>}
    /\ SeniorJava \in DOMAIN current
    /\ J1 \in Range(current[SeniorJava])
    /\ SeniorJava \in DOMAIN load_hot_jobs_current(file)

\* C3: once --remove has blocklisted a (company, role) pair, no later
\* reconciliation run adds a listing of that company and role (one the
\* --remove command itself matches) to any category.
C3_BlocklistedNeverAdded ==
    pc = "done" =>
        \A a \in RemoveArgs :
            LET company == strip(lower(a[1]))
                role == strip(lower(a[2]))
            IN  pair_key(company, role) \in load_hot_jobs_blocklist(file)
                => \A cat \in DOMAIN hot_jobs_by_category :
                       \A i \in 1..Len(hot_jobs_by_category[cat]) :
                           LET L == hot_jobs_by_category[cat][i]
                               was == cat \in DOMAIN current
                                      /\ L \in Range(current[cat])
                           IN  was \/ ~(/\ in_str(company, lower(L.company))
                                        /\ in_str(role, lower(L.title)))

\* C4: a reconciliation run keeps, in order and at the head of the
\* category's list, the entries that match no tracker company, and adds at
\* most 5 minus the number of kept entries (with 5 entries of which k match,
\* it keeps 5-k and adds at most k).
C4_KeepsAndBackfillsDeficit ==
    pc = "done" =>
        \A cat \in DOMAIN queries :
            LET existing == IF cat \in DOMAIN current THEN current[cat] ELSE <<>>
                matches(L) == \E name \in tracker :
                                  \/ in_str(lower(name), lower(L.company))
                                  \/ in_str(lower(L.company), lower(name))
                kept == SelectSeq(existing, LAMBDA L : ~matches(L))
                k == Len(existing) - Len(kept)
                after == IF cat \in DOMAIN hot_jobs_by_category
                         THEN hot_jobs_by_category[cat] ELSE <<>>
                added == Len(after) - Len(kept)
            IN  /\ Len(after) >= Len(kept)
                /\ SubSeq(after, 1, Len(kept)) = kept
                /\ added <= 5 - Len(kept)
                /\ Len(existing) = 5 => added <= k

\* a category held 5 entries, exactly one of them matched the tracker, the
\* run kept the other 4 and added one
C4_Witness ==
    /\ pc = "done"
    /\ tracker = {<<"A", "B", " ", "C", "o">>}
    /\ SeniorJava \in DOMAIN current
    /\ Len(current[SeniorJava]) = 5
    /\ J1 \in Range(current[SeniorJava])
    /\ SeniorJava \in DOMAIN hot_jobs_by_category
    /\ Len(hot_jobs_by_category[SeniorJava]) = 5
    /\ Range(hot_jobs_by_category[SeniorJava]) \ Range(current[SeniorJava]) # {}

C7_BlocklistFrame ==
    [][/\ pc' # "removed"
              => /\ load_hot_jobs_blocklist(file)' = load_hot_jobs_blocklist(file)
                 /\ file.exists => file'.blocklist = file.blocklist
       /\ load_hot_jobs_blocklist(file) \subseteq load_hot_jobs_blocklist(file)']_vars

\* a reconciliation run, after a --refresh block, has rewritten a file whose
\* blocklist holds two keys
C7_Witness ==
    /\ pc = "done"
    /\ Cardinality(load_hot_jobs_blocklist(file)) = 2
    /\ load_hot_jobs_current(file) # current

\* C8: the clearing step of --refresh with the name of a persisted category
\* removes that category's list and leaves every other list unchanged; with
\* no name (or an empty one) it empties every category; with a name that is
\* not a persisted category it changes no list.
C8_RefreshClears ==
    [][pc' = "refreshed" =>
          LET before == load_hot_jobs_current(file)
              after == load_hot_jobs_current(file)'
              name == refresh_cat'
          IN  IF name \in {NoArg, ""} THEN after = NoJobs
              ELSE IF name \in DOMAIN before
                   THEN /\ DOMAIN after = DOMAIN before \ {name}
                        /\ \A c \in DOMAIN after : after[c] = before[c]
                   ELSE after = before]_vars

\* --refresh "Senior Java" has cleared that category and the other category
\* is still in the file
C8_Witness ==
    /\ pc = "refreshed"
    /\ refresh_cat = SeniorJava
    /\ cleared = "category"
    /\ BackendJava \in DOMAIN load_hot_jobs_current(file)
    /\ SeniorJava \notin DOMAIN load_hot_jobs_current(file)

---------------------------------------------------------------------------
(* Property of the sticky file, stated for RoundTripSpec                   *)

\* C5: save_hot_jobs_current(c, b) followed by load_hot_jobs_current() and
\* load_hot_jobs_blocklist() returns the categories of c, each with the
\* entries of c in the same order, and the keys of b.
C5_RoundTrip ==
    rt_pc = "loaded" =>
        /\ DOMAIN loaded_current = DOMAIN arg_current
        /\ \A cat \in DOMAIN arg_current : loaded_current[cat] = arg_current[cat]
        /\ loaded_blocklist = arg_blocklist

\* two categories and three blocklist keys, saved over an earlier file whose
\* categories and key are all different, have been loaded back
C5_Witness ==
    /\ rt_pc = "loaded"
    /\ DOMAIN arg_current = {SeniorJava, BackendJava}
    /\ arg_current[SeniorJava] = <<J2, J1>>
    /\ arg_current[BackendJava] = <<>>
    /\ Cardinality(arg_blocklist) = 3
    /\ Len(file.blocklist) = 3
    /\ loaded_current = arg_current

\* C24: from an absent sticky file, after any sequence of reconciliation
\* runs, --remove and --refresh commands, no category's persisted list holds
\* two entries with the same URL or two entries with the same lower-cased,
\* stripped (company, title) pair.
C24_NoDuplicatesInCategory ==
    \A cat \in DOMAIN load_hot_jobs_current(file) :
        LET list == load_hot_jobs_current(file)[cat]
        IN  \A i, k \in 1..Len(list) :
                i < k => /\ list[i].url # list[k].url
                         /\ <<strip(lower(list[i].company)), strip(lower(list[i].title))>>
                            # <<strip(lower(list[k].company)), strip(lower(list[k].title))>>

\* a run has fetched, for a category, a listing, one with the same pair in
\* other case and white space and one with the same URL, and has persisted
\* the first of them only
C24_Witness ==
    /\ pc = "done"
    /\ BackendJava \in DOMAIN fetch_results
    /\ fetch_results[BackendJava] = <<<<J5, J6, J11, J12>>>>
    /\ BackendJava \in DOMAIN load_hot_jobs_current(file)
    /\ load_hot_jobs_current(file)[BackendJava] = <<J12, J5>>

\* C26: a second fetch_hot_jobs with the same tracker, the same blocklist and
\* the same result of every query leaves the persisted current_jobs as the
\* first run left it.
C26_ReconcileIdempotent ==
    pc = "done" =>
        fetch_hot_jobs(load_hot_jobs_current(file), load_hot_jobs_blocklist(file),
                       tracker, queries, fetch_results)
        = load_hot_jobs_current(file)

\* the first run has removed a tracker match and added listings, and has
\* left a category short of 5, so that the second run fetches again
C26_Witness ==
    /\ pc = "done"
    /\ tracker # {}
    /\ SeniorJava \in DOMAIN current
    /\ SeniorJava \in DOMAIN hot_jobs_by_category
    /\ \E L \in Range(current[SeniorJava]) : L \notin Range(hot_jobs_by_category[SeniorJava])
    /\ \E L \in Range(hot_jobs_by_category[SeniorJava]) : L \notin Range(current[SeniorJava])
    /\ Len(hot_jobs_by_category[SeniorJava]) < 5

\* C27: after a reconciliation run the persisted current_jobs holds only
\* categories of the run's queries, each with a non-empty list.
C27_OnlyConfiguredNonEmpty ==
    pc = "done" =>
        \A cat \in DOMAIN load_hot_jobs_current(file) :
            /\ cat \in DOMAIN queries
            /\ load_hot_jobs_current(file)[cat] # <<>>

\* a run configured with one category has met a file with two: the other
\* category is gone, and the configured one, whose only entry matched the
\* tracker and whose fetches returned nothing, is gone as well
C27_Witness ==
    /\ pc = "done"
    /\ queries = OneCategory
    /\ DOMAIN current = {SeniorJava, BackendJava}
    /\ current[SeniorJava] = <<J1>>
    /\ file.exists
    /\ load_hot_jobs_current(file) = NoJobs

\* C29: --remove with exactly one non-flag argument leaves the persisted
\* current_jobs and blocklist as they are, calls neither fetch_linkedin_jobs
\* nor fetch_hot_jobs, and the command ends there.
C29_RemoveWithoutRoleChangesNothing ==
    [][/\ pc' = "usage" => /\ file' = file
                           /\ fetch_results' = NoJobs
                           /\ hot_jobs_by_category' = NoJobs
       /\ pc = "usage" => /\ pc' = "idle"
                          /\ file' = file
                          /\ fetch_results' = NoJobs
                          /\ hot_jobs_by_category' = NoJobs]_vars

\* the usage text has been printed over a file that holds listings and a
\* blocklist
C29_Witness ==
    /\ pc = "usage"
    /\ load_hot_jobs_current(file) # NoJobs
    /\ load_hot_jobs_blocklist(file) # {}

\* C25: after every completed command, no entry of any category's
\* persisted list is matched by a company||role entry of the persisted
\* blocklist, matched as _is_blocklisted matches it: the entry is split at
\* its first "||" and its two parts are looked for in the lower-cased,
\* stripped company and title.
C25_NoPersistedEntryBlocklisted ==
    pc = "done" =>
        \A cat \in DOMAIN load_hot_jobs_current(file) :
            \A i \in 1..Len(load_hot_jobs_current(file)[cat]) :
                LET L == load_hot_jobs_current(file)[cat][i]
                    pairs == {e \in load_hot_jobs_blocklist(file) : in_str(PairSep, e)}
                IN  ~_is_blocklisted(strip(lower(L.company)), strip(lower(L.title)), pairs)

---------------------------------------------------------------------------
(* Properties of the remote search, stated for RemoteSpec                  *)

\* C9: filter_jobs applied to the output of filter_jobs followed by
\* dedup_jobs returns the same list: the same elements in the same order.
C9_FilterIdempotent ==
    remote_pc = "refiltered" => refiltered = deduped

\* the second filter_jobs has run on a list of two listings, left by a
\* first filter_jobs that dropped a listing
C9_Witness ==
    /\ remote_pc = "refiltered"
    /\ Len(all_jobs) = 3
    /\ Len(filtered) = 2
    /\ Len(deduped) = 2
    /\ Len(refiltered) = 2

\* C10: dedup_jobs keeps, for every lower-cased and stripped (company, title)
\* pair of its input, exactly one listing, the first one in input order, and
\* the kept listings are in their original relative order.
C10_DedupKeepsFirst ==
    remote_pc \in {"deduped", "refiltered"} =>
        LET input == filtered
            output == deduped
            key(job) == <<strip(lower(job.company)), strip(lower(job.title))>>
            firsts == {i \in 1..Len(input) :
                          \A k \in 1..(i - 1) : key(input[k]) # key(input[i])}
            nth(n) == CHOOSE i \in firsts : Cardinality({k \in firsts : k < i}) = n - 1
        IN  /\ \A i \in 1..Len(input) :
                   Cardinality({k \in 1..Len(output) : key(output[k]) = key(input[i])}) = 1
            /\ Len(output) = Cardinality(firsts)
            /\ \A n \in 1..Len(output) : output[n] = input[nth(n)]

\* dedup_jobs has dropped a listing whose pair differs from an earlier one's
\* in case and white space only, and kept the listing between them
C10_Witness ==
    /\ remote_pc = "deduped"
    /\ filtered = <<R1, R3, R2>>
    /\ deduped = <<R1, R3>>

\* the texts filter_jobs searches: title and tags, location and tags,
\* location and title, all lower-cased
search_text_of(job) == lower(job.title) \o <<" ">> \o lower(job.tags)

loc_tags_of(job) == lower(job.location) \o <<" ">> \o lower(job.tags)

loc_title_of(job) == lower(job.location) \o <<" ">> \o lower(job.title)

\* no ROLE_EXCLUDE term, and a primary keyword or python together with a
\* Java/backend signal
passes_role_checks(job) ==
    /\ ~any_in(ROLE_EXCLUDE, search_text_of(job))
    /\ \/ any_in(ROLE_KEYWORDS, search_text_of(job))
       \/ /\ any_in(PYTHON_SECONDARY_KEYWORDS, search_text_of(job))
          /\ any_in(JAVA_BACKEND_SIGNALS, search_text_of(job))

\* what the checks of filter_jobs find in the text of each listing: the
\* role checks, a LOCATION_EXCLUDE term, a US indicator in the location
\* alone and in the location and title, the US flag in the location, and an
\* EMEA signal
ListingFacts ==
    [job \in RemoteJobs |->
        [passes_role_checks |-> passes_role_checks(job),
         location_exclude |-> any_in(LOCATION_EXCLUDE, loc_tags_of(job)),
         us_in_location |-> any_in(US_INDICATORS, lower(job.location)),
         us_in_location_or_title |-> any_in(US_INDICATORS, loc_title_of(job)),
         us_flag |-> in_str(UsFlag, job.location),
         emea_signal |-> any_in(EMEA_SIGNALS, loc_tags_of(job))]]

C17_ExcludeIsNotOverridden ==
    remote_pc # "fetched" =>
        \A i \in 1..Len(all_jobs) :
            LET job == all_jobs[i]
                facts == ListingFacts[job]
            IN  /\ facts.location_exclude => job \notin Range(filtered)
                /\ (/\ facts.passes_role_checks
                    /\ ~facts.location_exclude
                    /\ ~facts.us_flag
                    /\ facts.us_in_location_or_title
                    /\ facts.emea_signal)
                   => job \in Range(filtered)

\* filter_jobs has dropped a listing located in "New York or London" and
\* retained one located in "USA or Europe"
C17_Witness ==
    /\ remote_pc = "filtered"
    /\ R13 \in Range(all_jobs)
    /\ R13 \notin Range(filtered)
    /\ R7 \in Range(filtered)

\* C17 as stated: a listing that passes the role checks and whose location
\* and tags hold a LOCATION_EXCLUDE entry is retained when they also hold an
\* EMEA signal.
C17_AsStated ==
    remote_pc # "fetched" =>
        \A i \in 1..Len(all_jobs) :
            LET job == all_jobs[i]
            IN  (/\ passes_role_checks(job)
                 /\ any_in(LOCATION_EXCLUDE, loc_tags_of(job))
                 /\ any_in(EMEA_SIGNALS, loc_tags_of(job)))
                => job \in Range(filtered)

\* C18: a listing of an EU-focused source that passes the role checks is
\* retained exactly when it hits no LOCATION_EXCLUDE entry, has no US flag
\* emoji in its location, and has no US/Canada indicator in its location and
\* title or has an EMEA signal; no LOCATION_INCLUDE term is asked of it.
C18_EuSourceSkipsIncludeCheck ==
    remote_pc # "fetched" =>
        \A i \in 1..Len(all_jobs) :
            LET job == all_jobs[i]
            IN  (job.source \in EU_FOCUSED_SOURCES /\ passes_role_checks(job))
                => (job \in Range(filtered)
                    <=> /\ ~any_in(LOCATION_EXCLUDE, loc_tags_of(job))
                        /\ ~in_str(UsFlag, job.location)
                        /\ \/ ~any_in(US_INDICATORS, loc_title_of(job))
                           \/ any_in(EMEA_SIGNALS, loc_tags_of(job)))

\* filter_jobs has retained an Arbeitnow listing located in "Remote", which
\* holds no LOCATION_INCLUDE term, and dropped one located in "New York"
C18_Witness ==
    /\ remote_pc = "filtered"
    /\ R2 \in Range(filtered)
    /\ ~any_in(LOCATION_INCLUDE, loc_tags_of(R2))
    /\ R14 \in Range(all_jobs)
    /\ R14 \notin Range(filtered)

\* C18 as stated: a listing of an EU-focused source that passes the role
\* checks is retained whatever its location and tags.
C18_AsStated ==
    remote_pc # "fetched" =>
        \A i \in 1..Len(all_jobs) :
            LET job == all_jobs[i]
            IN  (job.source \in EU_FOCUSED_SOURCES /\ passes_role_checks(job))
                => job \in Range(filtered)

\* C19: every listing in the output of filter_jobs holds no ROLE_EXCLUDE
\* term in its title and tags and holds a primary role keyword, or a python
\* keyword together with a Java/backend signal; a listing with a python
\* keyword only is never in the output.
C19_OutputPassesRoleChecks ==
    remote_pc # "fetched" =>
        \A k \in 1..Len(filtered) :
            LET text == search_text_of(filtered[k])
            IN  /\ ~any_in(ROLE_EXCLUDE, text)
                /\ \/ any_in(ROLE_KEYWORDS, text)
                   \/ /\ any_in(PYTHON_SECONDARY_KEYWORDS, text)
                      /\ any_in(JAVA_BACKEND_SIGNALS, text)
                /\ ~(/\ any_in(PYTHON_SECONDARY_KEYWORDS, text)
                     /\ ~any_in(ROLE_KEYWORDS, text)
                     /\ ~any_in(JAVA_BACKEND_SIGNALS, text))

\* filter_jobs has retained a python listing tagged spring and dropped the
\* same listing tagged django and a listing with an excluded term
C19_Witness ==
    /\ remote_pc = "filtered"
    /\ all_jobs = <<R5, R6, R8>>
    /\ filtered = <<R6>>

\* C20: in the output of sort_jobs a listing of a lower tier comes first;
\* within a tier an explicitly remote listing comes first; and of two
\* listings of the same tier and the same remote flag the one with the later
\* posted_date comes first.
C20_SortedByTierRemoteDate ==
    remote_pc = "sorted" =>
        \A i, j \in 1..Len(sorted_jobs) :
            i < j =>
                LET a == sorted_jobs[i]
                    b == sorted_jobs[j]
                    same_tier == get_location_tier(a) = get_location_tier(b)
                    same_flag == is_explicitly_remote(a) <=> is_explicitly_remote(b)
                IN  /\ get_location_tier(a) <= get_location_tier(b)
                    /\ same_tier => (is_explicitly_remote(b) => is_explicitly_remote(a))
                    /\ (same_tier /\ same_flag)
                       => ~str_lt(a.posted_date, b.posted_date)

---------------------------------------------------------------------------
(* Properties of the backfill of a reconciliation run, stated for Spec     *)

\* C12: every entry of a configured category's persisted list whose company
\* matches no tracker company is still in the category's persisted list
\* after the run, in the same relative order and ahead of every newly added
\* entry.
C12_BackfillKeepsEntries ==
    pc = "done" =>
        \A cat \in DOMAIN queries :
            LET existing == IF cat \in DOMAIN current THEN current[cat] ELSE <<>>
                after == IF cat \in DOMAIN load_hot_jobs_current(file)
                         THEN load_hot_jobs_current(file)[cat] ELSE <<>>
                matches(L) == \E name \in tracker :
                                  \/ in_str(lower(name), lower(L.company))
                                  \/ in_str(lower(L.company), lower(name))
                keptIdx == {i \in 1..Len(existing) : ~matches(existing[i])}
                at(i) == {n \in 1..Len(after) : after[n] = existing[i]}
                new == {n \in 1..Len(after) : after[n] \notin Range(existing)}
            IN  /\ \A i \in keptIdx : Cardinality(at(i)) = 1
                /\ \A i, j \in keptIdx :
                       i < j => \A n \in at(i), m \in at(j) : n < m
                /\ \A i \in keptIdx : \A m \in at(i), n \in new : m < n

\* a run has dropped a matched entry from the middle of a list, kept the
\* entries around it and added a new entry
C12_Witness ==
    /\ pc = "done"
    /\ tracker = {<<"C", "d">>}
    /\ SeniorJava \in DOMAIN current
    /\ SeniorJava \in DOMAIN load_hot_jobs_current(file)
    /\ \E i \in 2..(Len(current[SeniorJava]) - 1) : current[SeniorJava][i] = J2
    /\ Range(load_hot_jobs_current(file)[SeniorJava]) \ Range(current[SeniorJava]) # {}

\* C13: when the kept list of a category has 5 or more entries after tracker
\* filtering, the run calls fetch_linkedin_jobs for none of the category's
\* queries and the category's list is unchanged by the run.
C13_FullCategoryNotFetched ==
    pc = "done" =>
        \A cat \in DOMAIN queries :
            LET existing == IF cat \in DOMAIN current THEN current[cat] ELSE <<>>
                kept == SelectSeq(existing, LAMBDA L :
                            ~\E name \in tracker :
                                 \/ in_str(lower(name), lower(L.company))
                                 \/ in_str(lower(L.company), lower(name)))
            IN  Len(kept) >= 5
                => /\ fetch_results[cat] = <<>>
                   /\ cat \in DOMAIN hot_jobs_by_category
                   /\ hot_jobs_by_category[cat] = existing
                   /\ load_hot_jobs_current(file)[cat] = existing

\* a run with a tracker has left a full category alone and has fetched for
\* the other category
C13_Witness ==
    /\ pc = "done"
    /\ tracker = {<<"C", "d">>}
    /\ queries = BothCategories
    /\ SeniorJava \in DOMAIN current
    /\ Len(current[SeniorJava]) = 5
    /\ fetch_results[SeniorJava] = <<>>
    /\ Len(fetch_results[BackendJava]) = 1
    /\ hot_jobs_by_category[SeniorJava] = current[SeniorJava]

\* C14: every listing that backfill adds to a category has a URL that no
\* kept entry has, a normalized (company, title) key that no kept entry has,
\* a company that matches no tracker company, and is matched by no blocklist
\* entry.
C14_AddedListingsAreEligible ==
    pc = "done" =>
        \A cat \in DOMAIN hot_jobs_by_category :
            LET existing == IF cat \in DOMAIN current THEN current[cat] ELSE <<>>
                after == hot_jobs_by_category[cat]
                matches(L) == \E name \in tracker :
                                  \/ in_str(lower(name), lower(L.company))
                                  \/ in_str(lower(L.company), lower(name))
                kept == {L \in Range(existing) : ~matches(L)}
                key(L) == <<strip(lower(L.company)), strip(lower(L.title))>>
                blocked(L, entry) ==
                    IF in_str(<<"|", "|">>, entry)
                    THEN /\ in_str(split_pair(entry)[1], key(L)[1])
                         /\ in_str(split_pair(entry)[2], key(L)[2])
                    ELSE in_str(entry, key(L)[1]) \/ in_str(key(L)[1], entry)
            IN  \A L \in Range(after) \ Range(existing) :
                    /\ \A K \in kept : K.url # L.url /\ key(K) # key(L)
                    /\ ~matches(L)
                    /\ \A entry \in load_hot_jobs_blocklist(file) : ~blocked(L, entry)

\* a run has added a listing to a category while its results held a listing
\* with the URL of a kept entry, one of a tracker company and a blocklisted one
C14_Witness ==
    /\ pc = "done"
    /\ tracker = {<<"A", "B", " ", "C", "o">>}
    /\ pair_key(<<"c", "d">>, <<"j", "a", "v", "a">>) \in load_hot_jobs_blocklist(file)
    /\ SeniorJava \in DOMAIN current
    /\ SeniorJava \in DOMAIN hot_jobs_by_category
    /\ J9 \in Range(current[SeniorJava])
    /\ J7 \in Range(hot_jobs_by_category[SeniorJava]) \ Range(current[SeniorJava])
    /\ Len(fetch_results[SeniorJava]) = 2
    /\ {J1, J2} \subseteq Range(fetch_results[SeniorJava][1])
    /\ J9 \in Range(fetch_results[SeniorJava][2])

\* C15: for a category with deficit d, the added listings are the first d
\* eligible candidates in ascending location-tier order, ties in fetch
\* order; no eligible candidate left out has a strictly lower tier than one
\* that was added.
C15_BackfillTakesBestTiers ==
    pc = "done" =>
        \A cat \in DOMAIN queries :
            LET existing == IF cat \in DOMAIN current THEN current[cat] ELSE <<>>
                names == {strip(lower(name)) : name \in tracker}
                kept == SelectSeq(existing, LAMBDA L :
                            ~\E t \in names : \/ in_str(t, JobText[L].company)
                                              \/ in_str(JobText[L].company, t))
                after == IF cat \in DOMAIN hot_jobs_by_category
                         THEN hot_jobs_by_category[cat] ELSE <<>>
                added == SubSeq(after, Len(kept) + 1, Len(after))
                d == 5 - Len(kept)
                r == fetch_results[cat]
                Pos == UNION {{<<q, i>> : i \in 1..Len(r[q])} : q \in 1..Len(r)}
                job(a) == r[a[1]][a[2]]
                before(a, b) == a[1] < b[1] \/ (a[1] = b[1] /\ a[2] < b[2])
                passes(L) ==
                    /\ \A K \in Range(kept) : K.url # L.url /\ job_key(K) # job_key(L)
                    /\ ~\E t \in names : \/ in_str(t, JobText[L].company)
                                         \/ in_str(JobText[L].company, t)
                    /\ ~_is_blocklisted(JobText[L].company, JobText[L].title,
                                        load_hot_jobs_blocklist(file))
                cand[a \in Pos] ==
                    /\ passes(job(a))
                    /\ \A b \in Pos :
                           (before(b, a) /\ cand[b])
                           => /\ job(b).url # job(a).url
                              /\ job_key(job(b)) # job_key(job(a))
                C == {a \in Pos : cand[a]}
                tier(a) == JobText[job(a)].tier
                less(a, b) == tier(a) < tier(b) \/ (tier(a) = tier(b) /\ before(a, b))
                rank(a) == Cardinality({b \in C : less(b, a)}) + 1
            IN  /\ Len(added) = IF d <= 0 THEN 0
                                ELSE IF Cardinality(C) < d THEN Cardinality(C) ELSE d
                /\ \A a \in C : rank(a) <= d => added[rank(a)] = job(a)
                /\ \A a \in C : \A n \in 1..Len(added) :
                       rank(a) > d => tier(a) >= JobText[added[n]].tier

\* a run has added a listing ("Op", Paris) fetched after a candidate of a
\* worse tier ("Kl", Remote) that it has left out
C15_Witness ==
    /\ pc = "done"
    /\ tracker = {}
    /\ load_hot_jobs_blocklist(file) = {}
    /\ SeniorJava \in DOMAIN hot_jobs_by_category
    /\ Len(fetch_results[SeniorJava]) = 2
    /\ {J7, J9} \subseteq Range(fetch_results[SeniorJava][2])
    /\ J7 \notin Range(hot_jobs_by_category[SeniorJava])
    /\ J9 \in Range(hot_jobs_by_category[SeniorJava])
    /\ SeniorJava \in DOMAIN current => J9 \notin Range(current[SeniorJava])

\* C16: when every call of fetch_linkedin_jobs for a category returns no
\* listing (the call failed), the category's list after the run is its kept
\* list, the run still ends, and the other categories are still fetched for,
\* reconciled and persisted in the same run.
C16_FetchFailureKeepsList ==
    pc = "done" =>
        \A cat \in DOMAIN queries :
            LET existing(c) == IF c \in DOMAIN current THEN current[c] ELSE <<>>
                kept(c) == SelectSeq(existing(c), LAMBDA L :
                               ~\E name \in tracker :
                                    \/ in_str(lower(name), lower(L.company))
                                    \/ in_str(lower(L.company), lower(name)))
                saved == load_hot_jobs_current(file)
                after(c) == IF c \in DOMAIN saved THEN saved[c] ELSE <<>>
                failed == /\ fetch_results[cat] # <<>>
                          /\ \A q \in 1..Len(fetch_results[cat]) :
                                 fetch_results[cat][q] = <<>>
            IN  failed
                => /\ after(cat) = kept(cat)
                   /\ saved = hot_jobs_by_category
                   /\ \A c \in DOMAIN queries \ {cat} :
                          /\ Len(kept(c)) < 5
                                 => Len(fetch_results[c]) = Len(queries[c])
                          /\ Len(after(c)) >= Len(kept(c))
                          /\ SubSeq(after(c), 1, Len(kept(c))) = kept(c)
                          /\ \A L \in UNION {Range(fetch_results[c][q]) :
                                                q \in 1..Len(fetch_results[c])} :
                                 \/ Len(after(c)) = 5
                                 \/ L \in Range(after(c))
                                 \/ L.url \in {K.url : K \in Range(after(c))}
                                 \/ job_key(L) \in {job_key(K) : K \in Range(after(c))}
                                 \/ _is_in_tracker(JobText[L].company,
                                                   tracker_names_of(tracker))
                                 \/ _is_blocklisted(JobText[L].company, JobText[L].title,
                                                    load_hot_jobs_blocklist(file))

\* both fetches for "Senior Java" have failed in a run that dropped one of
\* its entries and kept the others, and the run has added a listing to
\* "Backend Java"
C16_Witness ==
    /\ pc = "done"
    /\ queries = BothCategories
    /\ tracker = {<<"A", "B", " ", "C", "o">>}
    /\ fetch_results[SeniorJava] = <<<<>>, <<>>>>
    /\ SeniorJava \in DOMAIN current
    /\ J1 \in Range(current[SeniorJava])
    /\ SeniorJava \in DOMAIN load_hot_jobs_current(file)
    /\ Len(load_hot_jobs_current(file)[SeniorJava]) = Len(current[SeniorJava]) - 1
    /\ BackendJava \notin DOMAIN current
    /\ BackendJava \in DOMAIN load_hot_jobs_current(file)

---------------------------------------------------------------------------
(* Properties of read_application_tracker, stated for TrackerSpec          *)

\* C23: for every company with rows in the sheet, the entry returned has the
\* role and status of the first row, in row order, among the company's rows
\* whose status ranks highest in the order review > progress > done >
\* reject > unknown.
C23_KeepsFirstBestStatus ==
    tracker_pc = "read" =>
        LET rank(st) == IF st = None THEN 0
                        ELSE IF in_str(<<"r", "e", "v", "i", "e", "w">>, lower(st)) THEN 4
                        ELSE IF in_str(<<"p", "r", "o", "g", "r", "e", "s", "s">>, lower(st)) THEN 3
                        ELSE IF in_str(<<"d", "o", "n", "e">>, lower(st)) THEN 2
                        ELSE IF in_str(<<"r", "e", "j", "e", "c", "t">>, lower(st)) THEN 1
                        ELSE 0
            read == {i \in 1..Len(sheet_rows) :
                        ~in_str(<<"P", "r", "o", "g", "r", "a", "m", "/", "P", "r", "o", "d", "u", "c", "t">>, sheet_rows[i].company)}
        IN  \A i \in read :
                LET name == strip(sheet_rows[i].company)
                    group == {k \in read : strip(sheet_rows[k].company) = name}
                    best == CHOOSE k \in group :
                                /\ \A m \in group :
                                       rank(sheet_rows[m].status) <= rank(sheet_rows[k].status)
                                /\ \A m \in group :
                                       rank(sheet_rows[m].status) = rank(sheet_rows[k].status)
                                       => k <= m
                IN  /\ name \in DOMAIN tracker_entries
                    /\ tracker_entries[name].role = sheet_rows[best].role
                    /\ tracker_entries[name].status = sheet_rows[best].status

\* three rows of one company have been merged: a rejected one, then two in
\* review, and the entry has the role of the second row
C23_Witness ==
    /\ tracker_pc = "read"
    /\ Len(sheet_rows) = 3
    /\ \A i \in 1..3 : sheet_rows[i].company = <<" ", "A", "c", "m", "e">>
    /\ sheet_rows[1].status = <<"R", "e", "j", "e", "c", "t", "e", "d">>
    /\ sheet_rows[2].status = <<"I", "n", " ", "R", "e", "v", "i", "e", "w">>
    /\ sheet_rows[3].status = <<"I", "n", " ", "R", "e", "v", "i", "e", "w">>
    /\ tracker_entries[<<"A", "c", "m", "e">>].role = 2

\* C30: for every company with rows in the sheet, the entry returned has a
\* non-empty hr_contacts when one of the company's rows has HR contacts, and
\* a non-empty role_link when one of them has a role link that starts with
\* http.
C30_ContactsAndLinkSurvive ==
    tracker_pc = "read" =>
        \A i \in 1..Len(sheet_rows) :
            LET row == sheet_rows[i]
                name == strip(row.company)
            IN  ~in_str(<<"P", "r", "o", "g", "r", "a", "m", "/", "P", "r", "o", "d", "u", "c", "t">>, row.company) =>
                    /\ row.hr_contacts # <<>>
                           => tracker_entries[name].hr_contacts # <<>>
                    /\ (row.role_link # None /\ startswith(strip(row.role_link), <<"h", "t", "t", "p">>))
                           => tracker_entries[name].role_link # <<>>

---------------------------------------------------------------------------
(* Properties of the remote search run after run, stated for HistorySpec   *)

\* C28: in every run of the remote search, a listing is marked new exactly
\* when its key (company and title, each lower-cased and stripped) is not the
\* key of a listing of the run before it, and after the run the saved keys are
\* the keys of the run's own listings.
C28_NewIffNotInPrecedingRun ==
    [][LET key(job) == <<strip(lower(job.company)), strip(lower(job.title))>>
           before == {key(marked_jobs[k].job) : k \in DOMAIN marked_jobs}
           after == {key(marked_jobs'[k].job) : k \in DOMAIN marked_jobs'}
       IN  /\ \A i \in DOMAIN marked_jobs' :
                  marked_jobs'[i].is_new <=> key(marked_jobs'[i].job) \notin before
           /\ history_file'.exists
           /\ {history_file'.keys[i] : i \in DOMAIN history_file'.keys} = after]_vars

\* a run after another one has marked one listing new and one not new; the
\* one not new is written differently from the letters of its key
C28_Witness ==
    \E i, k \in DOMAIN marked_jobs :
        /\ marked_jobs[i].job = R2
        /\ ~marked_jobs[i].is_new
        /\ marked_jobs[k].is_new

---------------------------------------------------------------------------
(* Properties of the fetchers, stated for FetchSpec                        *)

---------------------------------------------------------------------------
(* Properties of the resume tailor, stated for TailorFairSpec              *)

\* C22: a call of call_gemini makes at most max_retries requests and ends; a
\* request is followed by another one of the same call only when it was
\* answered by 429 and attempts remained; when every attempt was answered by
\* 429 the call raises, tailor_one returns False, and run_tailor goes on to
\* the company's next role or counts the company as failed and goes on to the
\* next company; run_tailor reaches its end with every company counted.
C22_BoundedRetries ==
    /\ [](posts <= max_retries)
    /\ [](tailor_pc = "call_gemini" => <>(tailor_pc # "call_gemini"))
    /\ [][(tailor_pc = "call_gemini" /\ tailor_pc' = "call_gemini")
              => /\ posts' = posts + 1
                 /\ attempt' = attempt + 1
                 /\ attempt' < max_retries + 1]_vars
    /\ [][(tailor_pc = "call_gemini" /\ posts = max_retries /\ attempt = max_retries)
              => /\ posts' = posts
                 /\ \/ /\ tailor_pc' = "tailor_one"
                       /\ role_idx' = role_idx + 1
                       /\ company_idx' = company_idx
                    \/ /\ tailor_pc' = "run_tailor"
                       /\ outcomes' = Append(outcomes, "failed")
                       /\ company_idx' = company_idx + 1]_vars
    /\ <>[](tailor_pc = "done" /\ Len(outcomes) = Len(companies))

\* every request of a call was answered by 429: the first company has been
\* counted as failed after max_retries requests and the second is next
C22_Witness ==
    /\ tailor_pc = "run_tailor"
    /\ Len(companies) = 2
    /\ company_idx = 2
    /\ posts = max_retries
    /\ attempt = max_retries
    /\ outcomes = <<"failed">>

====
